---- MODULE Spec2Model ----
(***************************************************************************)
(* A model of the measurement browser single page application of           *)
(* my-little-ruuvi-setup (src/unnamed/part_005 is the latest version of    *)
(* the SPA, src/spa.js and src/unnamed/part_000..004 are earlier ones) and *)
(* of the Recent Buffer that spec.md describes.                            *)
(*                                                                         *)
(* JavaScript values are modelled as follows.  A string is a TLA+ string.  *)
(* A number that may be null is a sequence: <<>> is null (or undefined),   *)
(* <<n>> is the integer n and <<n, k>> is the number n / 100^k that k      *)
(* divisions by 100 leave.  An array is a sequence; the                    *)
(* JavaScript index k is the TLA+ index k + 1.  An object is a record or a *)
(* function from its keys.                                                 *)
(***************************************************************************)
EXTENDS Integers, Sequences, FiniteSets, TLC

VARIABLES
    call,         \* the last application of a pure function: [fn, arg, ret]
    app,          \* the single page application and its browser and server
    buffer        \* the Recent Buffer: its sequences, its clock, the last query

vars == <<call, app, buffer>>

\* No function is applied in the specification of the App.
NoCall == [fn |-> "none", arg |-> <<>>, ret |-> <<>>]

\* There is no App in the specifications of the pure functions.
NoApp == [pending |-> {}]

\* There is no Recent Buffer in the specifications of the SPA.
NoBuffer == [now |-> 0]

-----------------------------------------------------------------------------
(* JavaScript values *)

Null == <<>>

Some(v) == <<v>>

\* The integer n of <<n>> or <<n, k>>; 0 for null, which is what null
\* converts to in a relational comparison.
Numer(v) == IF v = Null THEN 0 ELSE v[1]

\* The k of <<n, k>>, the number n / 100^k; 0 for an integer and null.
Exp100(v) == IF Len(v) = 2 THEN v[2] ELSE 0

RECURSIVE FloorDiv100(_, _)
\* floor(n / 100^k)
FloorDiv100(n, k) == IF k = 0 THEN n ELSE FloorDiv100(n \div 100, k - 1)

\* ceil(n / 100^k)
CeilDiv100(n, k) == 0 - FloorDiv100(0 - n, k)

\* a < b of JavaScript for numbers and null: n / 100^i < m / 100^j, compared
\* without building the powers.
JsLt(a, b) ==
    IF Exp100(a) >= Exp100(b)
    THEN FloorDiv100(Numer(a), Exp100(a) - Exp100(b)) < Numer(b)
    ELSE Numer(a) < CeilDiv100(Numer(b), Exp100(b) - Exp100(a))

JsGe(a, b) == ~JsLt(a, b)

JsGt(a, b) == JsLt(b, a)

\* currentValue / 100.0
Div100(v) == <<Numer(v), Exp100(v) + 1>>

\* {}
EmptyObject == [k \in {} |-> k]

\* array[k], k counted from 0
At(array, k) == array[k + 1]

RECURSIVE Flatten(_, _)
\* The values of rows from.. (0-based) of a 2-D array in the order the
\* nested for loops visit them.
Flatten(twoDArray, from) ==
    IF from >= Len(twoDArray) THEN <<>>
    ELSE At(twoDArray, from) \o Flatten(twoDArray, from + 1)

-----------------------------------------------------------------------------
(* Strings and the numbers read from them *)

\* str.charAt(k): the empty string outside the string
charAt(str, k) == IF k >= 0 /\ k < Len(str) THEN SubSeq(str, k + 1, k + 1) ELSE ""

\* An argument of substring: below 0 counts as 0, beyond the end as the length
clamp(str, k) == IF k < 0 THEN 0 ELSE IF k > Len(str) THEN Len(str) ELSE k

\* str.substring(from, to): the arguments are swapped when from > to
substring(str, from, to) ==
    LET f == clamp(str, from)
        t == clamp(str, to)
    IN  IF f = t THEN ""
        ELSE IF f < t THEN SubSeq(str, f + 1, t)
        ELSE SubSeq(str, t + 1, f)

Digits == {"0", "1", "2", "3", "4", "5", "6", "7", "8", "9"}

DigitValue(c) ==
    CASE c = "0" -> 0 [] c = "1" -> 1 [] c = "2" -> 2 [] c = "3" -> 3
      [] c = "4" -> 4 [] c = "5" -> 5 [] c = "6" -> 6 [] c = "7" -> 7
      [] c = "8" -> 8 [] c = "9" -> 9

AllDigits(str) == \A k \in 0..(Len(str) - 1) : charAt(str, k) \in Digits

RECURSIVE DecimalValue(_)
DecimalValue(str) ==
    IF str = "" THEN 0
    ELSE 10 * DecimalValue(SubSeq(str, 1, Len(str) - 1))
         + DigitValue(charAt(str, Len(str) - 1))

\* Not a number: the result of arithmetic on a string that is no numeral.
NaN == <<>>

\* The number a string converts to when it is multiplied (amount * 60), for
\* strings of digits, "-" and letters other than e, x and those of Infinity:
\* the empty string is 0, an optionally negated run of digits is that
\* integer, and anything else is NaN.
StringToNumber(str) ==
    IF str = "" THEN Some(0)
    ELSE IF AllDigits(str) THEN Some(DecimalValue(str))
    ELSE IF charAt(str, 0) = "-" /\ Len(str) > 1 /\ AllDigits(Tail(str))
         THEN Some(0 - DecimalValue(Tail(str)))
    ELSE NaN

-----------------------------------------------------------------------------
(* The URL hash: src/unnamed/part_005 lines 4-42.  A value parsed from the *)
(* hash or held in the view state is tagged: undefined, a string, null or  *)
(* a list of strings.                                                      *)

Undefined == [t |-> "undefined"]

StringValue(str) == [t |-> "string", v |-> str]

NullValue == [t |-> "null"]

ListValue(list) == [t |-> "list", v |-> list]

RECURSIVE splitLoop(_, _, _, _)
splitLoop(str, sep, from, k) ==
    IF k >= Len(str) THEN << substring(str, from, Len(str)) >>
    ELSE IF charAt(str, k) = sep
         THEN << substring(str, from, k) >> \o splitLoop(str, sep, k + 1, k + 1)
         ELSE splitLoop(str, sep, from, k + 1)

\* str.split(sep) for a separator of one character
split(str, sep) == splitLoop(str, sep, 0, 0)

RECURSIVE join(_, _)
\* array.join(sep)
join(list, sep) ==
    IF list = <<>> THEN ""
    ELSE IF Len(list) = 1 THEN list[1]
    ELSE list[1] \o sep \o join(Tail(list), sep)

\* str.includes(part): part is a substring of str
includes(str, part) ==
    \E k \in 0..Len(str) : substring(str, k, k + Len(part)) = part

LIST_HASH_VALUES == "selectedSensors"

\* `${value}`
toText(value) ==
    CASE value.t = "string" -> value.v
      [] value.t = "list" -> join(value.v, ",")
      [] value.t = "null" -> "null"
      [] OTHER -> "undefined"

\* !value
falsy(value) ==
    \/ value.t = "undefined"
    \/ value.t = "null"
    \/ value.t = "string" /\ value.v = ""

\* The keys of updateHash's argument, sorted.
HashKeys == <<"dataSource", "measurementType", "period", "selectedSensors">>

RECURSIVE serializeLoop(_, _, _, _)
serializeLoop(contents, keys, result, first) ==
    IF keys = <<>> THEN result
    ELSE LET key == Head(keys)
             value == contents[key]
         IN  IF falsy(value)
             THEN serializeLoop(contents, Tail(keys), result, first)
             ELSE IF first
             THEN serializeLoop(contents, Tail(keys),
                                result \o key \o "=" \o toText(value), FALSE)
             ELSE serializeLoop(contents, Tail(keys),
                                result \o "&" \o key \o "=" \o toText(value), FALSE)

\* contents: a function from the keys HashKeys to tagged values
serializeHash(contents) == serializeLoop(contents, HashKeys, "#", TRUE)

\* What parseHash stores for one part of the hash.
parsedValue(key, kv) ==
    LET value == IF Len(kv) >= 2 THEN StringValue(kv[2]) ELSE Undefined IN
    IF includes(LIST_HASH_VALUES, key)
    THEN IF value = StringValue("null") THEN NullValue
         ELSE IF value = StringValue("") THEN ListValue(<<>>)
         ELSE IF value = Undefined THEN ListValue(<<>>)
         ELSE ListValue(split(value.v, ","))
    ELSE value

RECURSIVE parseLoop(_, _)
parseLoop(parts, result) ==
    IF parts = <<>> THEN result
    ELSE LET kv == split(Head(parts), "=")
             key == kv[1]
         IN  parseLoop(Tail(parts),
                       [k \in (DOMAIN result) \cup {key} |->
                           IF k = key THEN parsedValue(key, kv) ELSE result[k]])

\* The object parseHash returns: a function from its keys to tagged values.
parseHash(hash) == parseLoop(split(substring(hash, 1, Len(hash)), "&"), EmptyObject)

\* parsedHash.key, undefined for an absent key
hashField(parsedHash, key) ==
    IF key \in DOMAIN parsedHash THEN parsedHash[key] ELSE Undefined

-----------------------------------------------------------------------------
(* Dates.  A time in milliseconds is the pair <<s, ms>> of its whole       *)
(* seconds and the milliseconds past them (0..999), s * 1000 + ms, or NaN. *)

\* The unit of periodToMillis, or "" when it throws `Unknown unit`.
periodUnit(period) ==
    LET unit == charAt(period, Len(period) - 1) IN
    IF unit = "h" \/ unit = "d" THEN unit ELSE ""

\* periodToMillis(period), for a period whose unit is known: src/unnamed/part_005
\* lines 359-369.  amount * 60 * 60 * 1000 is a whole number of seconds.
periodToMillis(period) ==
    LET unit == charAt(period, Len(period) - 1)
        amount == StringToNumber(substring(period, 0, Len(period) - 1))
    IN  IF amount = NaN THEN NaN
        ELSE IF unit = "h" THEN <<amount[1] * 60 * 60, 0>>
        ELSE <<amount[1] * 24 * 60 * 60, 0>>

\* new Date(end - millis)
dateMinus(end, millis) ==
    IF end = NaN \/ millis = NaN THEN NaN
    ELSE LET total == (end[2] - millis[2]) IN
         <<end[1] - millis[1] + (IF total < 0 THEN -1 ELSE 0),
           IF total < 0 THEN total + 1000 ELSE total>>

\* Math.floor(date.getTime() / 1000)
epochOf(date) == IF date = NaN THEN NaN ELSE Some(date[1])

-----------------------------------------------------------------------------
(* Bounds of the data arrays a response carries *)

\* The most value cells (rows 1.. times columns) of a data array.
MaxCells == 4

\* The values a cell holds (null apart): below zero, zero, and above zero
\* inside and outside the default ranges.
Vals == {-3, 0, 5, 30}

Cells == {Null} \cup {Some(v) : v \in Vals}

\* Row 0 of a Series Result: one timestamp per column.
TimestampRow(len) == [j \in 1..len |-> Some(60 * (j - 1))]

\* The data arrays with n value rows of len columns.
DataOfShape(n, len) ==
    {<<TimestampRow(len)>> \o rows : rows \in [1..n -> [1..len -> Cells]]}

Shapes == {s \in (0..MaxCells) \X (0..MaxCells) : s[1] * s[2] <= MaxCells}

DataArrays == UNION {DataOfShape(s[1], s[2]) : s \in Shapes}

-----------------------------------------------------------------------------
(* minMax: src/unnamed/part_005 lines 45-62 *)

minStep(min, v) == IF min = Null \/ JsLt(v, min) THEN v ELSE min

maxStep(max, v) == IF max = Null \/ JsGe(v, max) THEN v ELSE max

RECURSIVE minMaxLoop(_, _, _)
minMaxLoop(values, min, max) ==
    IF values = <<>> THEN [min |-> min, max |-> max]
    ELSE minMaxLoop(Tail(values), minStep(min, Head(values)),
                    maxStep(max, Head(values)))

minMax(twoDArray, startDim) == minMaxLoop(Flatten(twoDArray, startDim), Null, Null)

-----------------------------------------------------------------------------
(* seriesAndBandsFromSensorsAndScaleName: src/unnamed/part_005 lines       *)
(* 173-182 and 285-327                                                     *)

\* https://www.nature.com/articles/nmeth.1618
colors ==
    << "rgb(0, 0, 0)", "rgb(230, 159, 0)", "rgb(86, 180, 233)",
       "rgb(0, 158, 115)", "rgb(240, 228, 66)", "rgb(0, 114, 178)",
       "rgb(213, 94, 0)", "rgb(204, 121, 167)" >>

\* colors[sensorIndex]: undefined past the end of the array
colorAt(sensorIndex) ==
    IF sensorIndex < Len(colors) THEN At(colors, sensorIndex) ELSE "undefined"

\* A variant of sensorNameOf that never consults the registry.
sensorNameOfIdOnly(sensorConfig, v) == v

\* sensorConfig[v] ? sensorConfig[v].name : v
sensorNameOf(sensorConfig, v) ==
    IF v \in DOMAIN sensorConfig THEN sensorConfig[v].name ELSE v

lowSeries(sensorName, scaleName, sensorIndex) ==
    [label |-> "Low " \o sensorName, scale |-> scaleName,
     stroke |-> colorAt(sensorIndex), width |-> "0.1"]

highSeries(sensorName, scaleName, sensorIndex) ==
    [label |-> "High " \o sensorName, scale |-> scaleName,
     stroke |-> colorAt(sensorIndex), width |-> "0.1"]

mainSeries(sensorName, scaleName, sensorIndex, nSensors) ==
    [label |-> sensorName, scale |-> scaleName,
     stroke |-> colorAt(sensorIndex), width |-> "2",
     dash |-> <<((nSensors - sensorIndex) + 1) * 3>>, spanGaps |-> TRUE]

bandOf(sensorIndex) ==
    LET lowIndex == 1 + sensorIndex * 3
        highIndex == 1 + sensorIndex * 3 + 1
    IN  [show |-> TRUE, series |-> <<highIndex, lowIndex>>,
         fill |-> "rgba(0, 0, 0, .07)"]

\* A variant of seriesStep that pushes the main series before Low and High.
seriesStepMainFirst(acc, v, sensorIndex, nSensors, sensorConfig, summaries, scaleName) ==
    LET sensorName == sensorNameOf(sensorConfig, v) IN
    IF summaries = Some(TRUE)
    THEN << acc[1] \o << mainSeries(sensorName, scaleName, sensorIndex, nSensors),
                         lowSeries(sensorName, scaleName, sensorIndex),
                         highSeries(sensorName, scaleName, sensorIndex) >>,
            acc[2] \o << bandOf(sensorIndex) >> >>
    ELSE << acc[1] \o << mainSeries(sensorName, scaleName, sensorIndex, nSensors) >>,
            acc[2] >>

\* One step of the reduce: what sensor v, the sensorIndex-th, adds.
seriesStep(acc, v, sensorIndex, nSensors, sensorConfig, summaries, scaleName) ==
    LET sensorName == sensorNameOf(sensorConfig, v) IN
    IF summaries = Some(TRUE)
    THEN << acc[1] \o << lowSeries(sensorName, scaleName, sensorIndex),
                         highSeries(sensorName, scaleName, sensorIndex),
                         mainSeries(sensorName, scaleName, sensorIndex, nSensors) >>,
            acc[2] \o << bandOf(sensorIndex) >> >>
    ELSE << acc[1] \o << mainSeries(sensorName, scaleName, sensorIndex, nSensors) >>,
            acc[2] >>

RECURSIVE seriesReduceOneShort(_, _, _, _, _, _)
\* A variant of seriesReduce that leaves out the last sensor.
seriesReduceOneShort(acc, sensors, sensorIndex, sensorConfig, summaries, scaleName) ==
    IF sensorIndex >= Len(sensors) - 1 THEN acc
    ELSE seriesReduceOneShort(
             seriesStep(acc, At(sensors, sensorIndex), sensorIndex, Len(sensors),
                        sensorConfig, summaries, scaleName),
             sensors, sensorIndex + 1, sensorConfig, summaries, scaleName)

RECURSIVE seriesReduce(_, _, _, _, _, _)
seriesReduce(acc, sensors, sensorIndex, sensorConfig, summaries, scaleName) ==
    IF sensorIndex >= Len(sensors) THEN acc
    ELSE seriesReduce(
             seriesStep(acc, At(sensors, sensorIndex), sensorIndex, Len(sensors),
                        sensorConfig, summaries, scaleName),
             sensors, sensorIndex + 1, sensorConfig, summaries, scaleName)

\* A variant of seriesAndBandsFromSensorsAndScaleName that builds series for
\* the sensors of the registry copy alone.
seriesAndBandsOfKnownSensors(sensors, sensorConfig, summaries, scaleName) ==
    seriesReduce(<< <<EmptyObject>>, <<>> >>,
                 SelectSeq(sensors, LAMBDA v : v \in DOMAIN sensorConfig), 0,
                 sensorConfig, summaries, scaleName)

\* Returns <<series, bands>>.
seriesAndBandsFromSensorsAndScaleName(sensors, sensorConfig, summaries, scaleName) ==
    seriesReduce(<< <<EmptyObject>>, <<>> >>, sensors, 0, sensorConfig,
                 summaries, scaleName)

-----------------------------------------------------------------------------
(* Scales: src/unnamed/part_005 lines 185-251 and 330-344.  A range is a   *)
(* pair of numbers, or Null for undefined.                                 *)

scaleFromMeasurementTypeAndUnit(measurementType, unit) ==
    [scale |-> measurementType, unit |-> unit]

scaleForTemperature(values) ==
    LET m == minMax(values, 1)
        default == <<Some(2), Some(24)>>
        range == IF m.min # Null /\ m.max # Null
                 THEN IF JsLt(m.min, default[1]) THEN Null
                      ELSE IF JsGt(m.max, default[2]) THEN Null
                      ELSE default
                 ELSE default
    IN  [scale |-> "temperature", auto |-> (range = Null), range |-> range,
         unit |-> " °C"]

\* scaleForTemperature of src/unnamed/part_001 lines 74-88, its range check
\* two independent ifs: after the first one has set range to undefined, the
\* second one reads range[1] and throws a TypeError.
scaleForTemperature001(values) ==
    LET m == minMax(values, 1)
        default == <<Some(8), Some(24)>>
    IN  IF m.min # Null /\ m.max # Null /\ JsLt(m.min, default[1])
        THEN [threw |-> "TypeError"]
        ELSE [scale |-> "temperature",
              auto |-> (m.min # Null /\ m.max # Null /\ JsGt(m.max, default[2])),
              range |-> IF m.min # Null /\ m.max # Null /\ JsGt(m.max, default[2])
                        THEN Null ELSE default,
              unit |-> " °C"]

scaleForHumidity(values) ==
    LET m == minMax(values, 1)
        default == <<Some(15), Some(75)>>
        range == IF m.min # Null /\ m.max # Null
                 THEN << IF JsLt(m.min, default[1]) THEN Some(0) ELSE default[1],
                         IF JsGt(m.max, default[2]) THEN Some(100) ELSE default[2] >>
                 ELSE default
    IN  [scale |-> "humidity", auto |-> FALSE, range |-> range, unit |-> " %"]

\* A loop that divides every cell of rows 1.., the null cells too
pressureDividedWithNulls(values) ==
    [i \in 1..Len(values) |->
        IF i = 1 THEN values[i]
        ELSE [j \in 1..Len(values[i]) |-> Div100(values[i][j])]]

\* values after the loops of scaleForPressure: every cell of rows 1.. that
\* is not null or undefined is divided by 100, in place.
pressureDivided(values) ==
    [i \in 1..Len(values) |->
        IF i = 1 THEN values[i]
        ELSE [j \in 1..Len(values[i]) |->
                 IF values[i][j] # Null THEN Div100(values[i][j]) ELSE Null]]

RECURSIVE pressureRange(_, _)
\* range after the loops of scaleForPressure have visited the cells `cells`
pressureRange(cells, range) ==
    IF cells = <<>> THEN range
    ELSE LET currentValue == Head(cells)
             newValue == Div100(currentValue)
         IN  IF currentValue # Null /\ range # Null
                /\ (JsLt(newValue, range[1]) \/ JsGt(newValue, range[2]))
             THEN pressureRange(Tail(cells), Null)
             ELSE pressureRange(Tail(cells), range)

scaleForPressure(values) ==
    LET range == pressureRange(Flatten(values, 1), <<Some(980), Some(1035)>>) IN
    [scale |-> "pressure", auto |-> (range = Null), range |-> range, unit |-> " hPa"]

\* The draw hook writes the `atm` line at 1013.25 on the scale scaleName.
pressureHooksFromScaleName(scaleName) == [draw |-> <<[atm |-> scaleName]>>]

\* A variant of scaleAndHooksForMeasurementTypeAndValues with a scale
\* without unit for any other type.
scaleAndHooksWithFallback(measurementType, values) ==
    CASE measurementType = "temperature" -> <<scaleForTemperature(values), Null>>
      [] measurementType = "humidity" -> <<scaleForHumidity(values), Null>>
      [] measurementType = "pressure" ->
            <<scaleForPressure(values),
              Some(pressureHooksFromScaleName(scaleForPressure(values).scale))>>
      [] measurementType = "battery_voltage" ->
            <<scaleFromMeasurementTypeAndUnit(measurementType, "V"), Null>>
      [] measurementType = "tx_power" ->
            <<scaleFromMeasurementTypeAndUnit(measurementType, "dBm"), Null>>
      [] OTHER -> <<scaleFromMeasurementTypeAndUnit(measurementType, ""), Null>>

\* Returns <<scale, hooks>>, hooks being Null or Some(hooks), or Null for
\* the undefined the function returns past its console.assert.
scaleAndHooksForMeasurementTypeAndValues(measurementType, values) ==
    CASE measurementType = "temperature" -> <<scaleForTemperature(values), Null>>
      [] measurementType = "humidity" -> <<scaleForHumidity(values), Null>>
      [] measurementType = "pressure" ->
            <<scaleForPressure(values),
              Some(pressureHooksFromScaleName(scaleForPressure(values).scale))>>
      [] measurementType = "battery_voltage" ->
            <<scaleFromMeasurementTypeAndUnit(measurementType, "V"), Null>>
      [] measurementType = "tx_power" ->
            <<scaleFromMeasurementTypeAndUnit(measurementType, "dBm"), Null>>
      [] OTHER -> Null

\* The values array after the call: scaleForPressure alone writes to it.
valuesAfterScale(measurementType, values) ==
    IF measurementType = "pressure" THEN pressureDivided(values) ELSE values

-----------------------------------------------------------------------------
(* plot: src/unnamed/part_005 lines 514-550.  A response object is a       *)
(* record; a field the object lacks is not in its domain.  The chart       *)
(* element is the sequence of the charts it holds.                         *)

\* object.key, Null for undefined
fieldOf(object, key) == IF key \in DOMAIN object THEN object[key] ELSE Null

\* The scale functions that read values.length or values[i]
ReadsValues == {"temperature", "humidity", "pressure"}

\* object with object.key = value
withField(object, key, value) ==
    [k \in (DOMAIN object) \cup {key} |-> IF k = key THEN value ELSE object[k]]

\* What new uPlot(opts, effData, element) appends to the element.
uPlot(scale, hooks, seriesAndBands, summaries, effData, width, height) ==
    [width |-> width, height |-> height,
     series |-> seriesAndBands[1], bands |-> seriesAndBands[2],
     scale |-> withField(scale, "size", 100), hooks |-> hooks,
     tooltip |-> summaries, data |-> effData]

\* A plot without element.innerHTML = '': the new chart joins the old ones.
plotAppending(element, measurementType, summaries, data, sensorConfig, width, height) ==
    LET effData == fieldOf(data, "data")
        threw(d) == [threw |-> TRUE, element |-> element, data |-> d]
    IN  IF "data" \notin DOMAIN data /\ measurementType \in ReadsValues
        THEN threw(data)
        ELSE LET scaleAndHooks ==
                     scaleAndHooksForMeasurementTypeAndValues(measurementType, effData)
             IN  IF scaleAndHooks = Null THEN threw(data)
                 ELSE LET written ==
                              IF "data" \in DOMAIN data
                              THEN withField(data, "data",
                                             valuesAfterScale(measurementType, effData))
                              ELSE data
                      IN  IF "sensors" \notin DOMAIN data THEN threw(written)
                          ELSE [threw |-> FALSE,
                                element |->
                                    element \o
                                    << uPlot(scaleAndHooks[1], scaleAndHooks[2],
                                             seriesAndBandsFromSensorsAndScaleName(
                                                 data.sensors, sensorConfig, summaries,
                                                 scaleAndHooks[1].scale),
                                             summaries, written.data, width, height) >>,
                                data |-> written]

\* Returns the element and the data object as the call leaves them, and
\* whether it threw.
plot(element, measurementType, summaries, data, sensorConfig, width, height) ==
    LET effData == fieldOf(data, "data")
        threw(d) == [threw |-> TRUE, element |-> element, data |-> d]
    IN  IF "data" \notin DOMAIN data /\ measurementType \in ReadsValues
        THEN threw(data)
        ELSE LET scaleAndHooks ==
                     scaleAndHooksForMeasurementTypeAndValues(measurementType, effData)
             IN  IF scaleAndHooks = Null THEN threw(data)
                 ELSE LET written ==
                              IF "data" \in DOMAIN data
                              THEN withField(data, "data",
                                             valuesAfterScale(measurementType, effData))
                              ELSE data
                      IN  IF "sensors" \notin DOMAIN data THEN threw(written)
                          ELSE [threw |-> FALSE,
                                element |->
                                    << uPlot(scaleAndHooks[1], scaleAndHooks[2],
                                             seriesAndBandsFromSensorsAndScaleName(
                                                 data.sensors, sensorConfig, summaries,
                                                 scaleAndHooks[1].scale),
                                             summaries, written.data, width, height) >>,
                                data |-> written]

-----------------------------------------------------------------------------
(* Sensors and the Sensor Registry *)

SensorIds == {"aa", "bb", "cc"}

SensorNames == {"Attic", "Sauna"}

\* The most sensors of a Series Result.
MaxSensors == 2

\* data.sensors: lists of distinct sensor ids
SensorLists ==
    {l \in UNION {[1..n -> SensorIds] : n \in 0..MaxSensors} :
        \A i, j \in 1..Len(l) : i # j => l[i] # l[j]}

\* sensors.json: sensor id -> {name}
Registries ==
    UNION {[ids -> [name : SensorNames]] : ids \in SUBSET SensorIds}

\* sensors.json of the App
AppRegistries ==
    {[id \in {"aa", "bb"} |-> [name |-> IF id = "aa" THEN "Attic" ELSE "Sauna"]]}

\* data.summaries: true, false or absent
SummariesFlags == {Some(TRUE), Some(FALSE), Null}

-----------------------------------------------------------------------------
(* The Query Service as spec.md describes it (sections 4.3, 4.4, 6 and 7): *)
(* what the server answers to a request of the SPA.                        *)

RecognizedTypes == {"temperature", "humidity", "pressure", "battery_voltage", "tx_power"}

\* The sensor ids in ascending order.
IdOrder == <<"aa", "bb", "cc">>

RECURSIVE sortedIds(_, _)
sortedIds(ids, k) ==
    IF k > Len(IdOrder) THEN <<>>
    ELSE (IF IdOrder[k] \in ids THEN <<IdOrder[k]>> ELSE <<>>) \o sortedIds(ids, k + 1)

\* The error kind of a request, "" for a valid one.
validationError(request) ==
    IF request.start = NaN \/ request.end = NaN THEN "MalformedInput"
    ELSE IF request.start[1] >= request.end[1] THEN "InvalidRange"
    ELSE IF request.measurementType \notin RecognizedTypes THEN "UnknownMeasurementType"
    ELSE ""

errorPayload(kind) == [error |-> kind, message |-> kind]

\* A reading of each type, as the store holds it.
readingOf(measurementType) ==
    CASE measurementType = "temperature" -> 21
      [] measurementType = "humidity" -> 80
      [] measurementType = "pressure" -> 101325
      [] measurementType = "battery_voltage" -> 3
      [] OTHER -> 4

\* The arrays one sensor contributes: one array of values, or the low, the
\* high and the average array; all gaps for a sensor without readings.
sensorArrays(measurementType, summarized, hasReadings) ==
    LET v == readingOf(measurementType)
        gaps == <<Null, Null>>
    IN  IF ~hasReadings
        THEN IF summarized THEN <<gaps, gaps, gaps>> ELSE <<gaps>>
        ELSE IF summarized
             THEN << <<Some(v - 1), Null>>, <<Some(v + 1), Null>>, <<Some(v), Null>> >>
             ELSE << <<Some(v), Null>> >>

RECURSIVE resultArrays(_, _, _, _)
resultArrays(sensors, measurementType, summarized, withReadings) ==
    IF sensors = <<>> THEN <<>>
    ELSE sensorArrays(measurementType, summarized, Head(sensors) \in withReadings)
         \o resultArrays(Tail(sensors), measurementType, summarized, withReadings)

\* The Series Result of a valid request: the sensors the registry knows
\* and the sensors with readings, one timestamp per slot.
seriesResult(request, registry, withReadings) ==
    LET sensors == sortedIds((DOMAIN registry) \cup withReadings, 1)
        summarized == request.endpoint = "summaries.json"
        arrays == << <<request.start, Some(request.start[1] + 60)>> >>
                  \o resultArrays(sensors, request.measurementType, summarized,
                                  withReadings)
    IN  IF summarized
        THEN [sensors |-> sensors, data |-> arrays, summaries |-> Some(TRUE)]
        ELSE [sensors |-> sensors, data |-> arrays]

\* The sets of sensors that may have readings in a range.
ReadingSets == {{}, {"aa", "cc"}}

\* The payloads the server may answer a request with.
payloads(request, registry) ==
    IF validationError(request) # ""
    THEN {errorPayload(validationError(request))}
    ELSE {seriesResult(request, registry, r) : r \in ReadingSets}
         \cup {errorPayload("StoreUnavailable")}

-----------------------------------------------------------------------------
(* The specification of the series construction: the function is applied   *)
(* to a sensor list under two registry contents.                           *)

SeriesInputs ==
    [sensors : SensorLists, sensorConfig : Registries, otherConfig : Registries,
     summaries : SummariesFlags, scaleName : {"temperature", "pressure"}]

InitSeries ==
    /\ app = NoApp
    /\ buffer = NoBuffer
    /\ call \in {[fn |-> "input", arg |-> a, ret |-> <<>>] : a \in SeriesInputs}

CallSeries ==
    /\ call.fn = "input"
    /\ UNCHANGED <<app, buffer>>
    /\ call' = [fn |-> "series",
                arg |-> call.arg,
                ret |-> [mine |-> seriesAndBandsFromSensorsAndScaleName(
                                      call.arg.sensors, call.arg.sensorConfig,
                                      call.arg.summaries, call.arg.scaleName),
                         other |-> seriesAndBandsFromSensorsAndScaleName(
                                      call.arg.sensors, call.arg.otherConfig,
                                      call.arg.summaries, call.arg.scaleName)]]

NextSeries == CallSeries

SpecSeries == InitSeries /\ [][NextSeries]_vars

-----------------------------------------------------------------------------
(* The specification of the scale computations: a data array is drawn and  *)
(* a function applied to it.                                               *)

InitScale ==
    /\ app = NoApp
    /\ buffer = NoBuffer
    /\ call \in {[fn |-> "input", arg |-> d, ret |-> <<>>] : d \in DataArrays}

CallMinMax ==
    /\ call.fn = "input"
    /\ UNCHANGED <<app, buffer>>
    /\ call' = [fn |-> "minMax", arg |-> call.arg, ret |-> minMax(call.arg, 1)]

CallScaleForTemperature ==
    /\ call.fn = "input"
    /\ UNCHANGED <<app, buffer>>
    /\ call' = [fn |-> "scaleForTemperature", arg |-> call.arg,
                ret |-> scaleForTemperature(call.arg)]

CallScaleForTemperature001 ==
    /\ call.fn = "input"
    /\ UNCHANGED <<app, buffer>>
    /\ call' = [fn |-> "scaleForTemperature001", arg |-> call.arg,
                ret |-> scaleForTemperature001(call.arg)]

\* scaleForPressure returns the scale and leaves the values divided.
CallScaleForPressure ==
    /\ call.fn = "input"
    /\ UNCHANGED <<app, buffer>>
    /\ call' = [fn |-> "scaleForPressure", arg |-> call.arg,
                ret |-> [scale |-> scaleForPressure(call.arg),
                         values |-> pressureDivided(call.arg)]]

NextScale ==
    \/ CallMinMax
    \/ CallScaleForTemperature
    \/ CallScaleForTemperature001
    \/ CallScaleForPressure

SpecScale == InitScale /\ [][NextScale]_vars

-----------------------------------------------------------------------------
(* The specification of plot: a measurement type, a Series Result and an   *)
(* element are drawn, and plot is applied to them.                         *)

\* Measurement types the URL hash may name and no scale exists for
OtherTypes == {"wind", "", "Temperature"}

\* A chart the element may hold before the call
OldChart == [width |-> 400, height |-> 300]

PlotInputs ==
    [element : {<<>>, <<OldChart>>},
     measurementType : RecognizedTypes \cup OtherTypes,
     request : [endpoint : {"measurements.json", "summaries.json"},
                start : {Some(1794000000)}, measurementType : {"temperature", "pressure"}],
     registry : AppRegistries,
     withReadings : ReadingSets]

InitPlot ==
    /\ app = NoApp
    /\ buffer = NoBuffer
    /\ call \in {[fn |-> "input", arg |-> a, ret |-> <<>>] : a \in PlotInputs}

CallPlot ==
    /\ call.fn = "input"
    /\ UNCHANGED <<app, buffer>>
    /\ LET data == withField(seriesResult(call.arg.request, call.arg.registry,
                                          call.arg.withReadings),
                             "measurementType", call.arg.measurementType)
       IN  call' = [fn |-> "plot", arg |-> call.arg,
                    ret |-> [scaleAndHooks |->
                                 scaleAndHooksForMeasurementTypeAndValues(
                                     call.arg.measurementType, data.data),
                             plot |-> plot(call.arg.element, call.arg.measurementType,
                                           fieldOf(data, "summaries"), data,
                                           call.arg.registry, 800, 600)]]

NextPlot == CallPlot

SpecPlot == InitPlot /\ [][NextPlot]_vars

-----------------------------------------------------------------------------
(* The query of the version that asks the server for a bucket width:       *)
(* src/unnamed/part_001, App lines 433-479 and Chart lines 393-430.        *)

\* The periods of the QuickChooser buttons: src/unnamed/part_001 lines 293-300
QuickChooserPeriods001 == {"1h", "3h", "6h", "12h", "24h", "2d", "3d", "7d"}

\* Periods read from the URL hash: around the width thresholds, and ones no
\* button offers.
HashPeriods ==
    {"23h", "25h", "167h", "6d", "8d", "31d", "32d", "40d", "365d",
     "0h", "h", "d", "-1h", "-2d", "qh", "1-d", "", "7", "1q"}

\* new Date(): an instant of November 2026, at various milliseconds
Nows == {<<1794000000, 0>>, <<1794000000, 1>>, <<1794000059, 999>>,
         <<1794003600, 500>>}

\* A variant of windowSecsOf whose thresholds belong to the narrower width.
windowSecsOfInclusive(periodSecs) ==
    IF periodSecs = NaN THEN 86400
    ELSE IF periodSecs[1] <= 86400 THEN 60
    ELSE IF periodSecs[1] <= 7 * 86400 THEN 3600
    ELSE IF periodSecs[1] <= 32 * 86400 THEN 10800
    ELSE 86400

windowSecsOf(periodSecs) ==
    IF periodSecs = NaN THEN 86400
    ELSE IF periodSecs[1] < 86400 THEN 60
    ELSE IF periodSecs[1] < 7 * 86400 THEN 3600
    ELSE IF periodSecs[1] < 32 * 86400 THEN 10800
    ELSE 86400

\* endEpoch - startEpoch
epochDiff(endEpoch, startEpoch) ==
    IF endEpoch = NaN \/ startEpoch = NaN THEN NaN
    ELSE Some(endEpoch[1] - startEpoch[1])

\* The request the effect of Chart issues for the props App passes it.
chartQuery001(period, now, measurementType) ==
    LET start == dateMinus(now, periodToMillis(period))
        end == now
        startEpoch == epochOf(start)
        endEpoch == epochOf(end)
        periodSecs == epochDiff(endEpoch, startEpoch)
    IN  [endpoint |-> "measurements.json", start |-> startEpoch, end |-> endEpoch,
         window |-> windowSecsOf(periodSecs), measurementType |-> measurementType]

WindowInputs ==
    [period : QuickChooserPeriods001 \cup HashPeriods, now : Nows,
     measurementType : {"temperature"}]

InitWindow ==
    /\ app = NoApp
    /\ buffer = NoBuffer
    /\ call \in {[fn |-> "input", arg |-> a, ret |-> <<>>] : a \in WindowInputs}

\* App renders and the effect of Chart fetches; App throws for an unknown unit.
RenderAndFetch001 ==
    /\ call.fn = "input"
    /\ periodUnit(call.arg.period) # ""
    /\ UNCHANGED <<app, buffer>>
    /\ call' = [fn |-> "query", arg |-> call.arg,
                ret |-> chartQuery001(call.arg.period, call.arg.now,
                                      call.arg.measurementType)]

RenderThrows001 ==
    /\ call.fn = "input"
    /\ periodUnit(call.arg.period) = ""
    /\ UNCHANGED <<app, buffer>>
    /\ call' = [fn |-> "throw", arg |-> call.arg, ret |-> <<>>]

NextWindow == RenderAndFetch001 \/ RenderThrows001

SpecWindow == InitWindow /\ [][NextWindow]_vars

-----------------------------------------------------------------------------
(* The roll period of the dygraphs plot: src/unnamed/part_004 lines 33-51  *)
(* and src/unnamed/part_002 lines 174-190.                                 *)

\* let rollPeriod = 1, then the chain of if and else if over periodSecs
rollPeriodOf(periodSecs) ==
    IF periodSecs = NaN THEN 1
    ELSE IF periodSecs[1] > 60 * 60 THEN 5
    ELSE IF periodSecs[1] > 6 * 60 * 60 THEN 15
    ELSE IF periodSecs[1] > 12 * 60 * 60 THEN 30
    ELSE 1

\* Query spans in seconds, around one, six and twelve hours
RollSpans ==
    {0, 1800, 3600, 3601, 7200, 21600, 21601, 43200, 43201, 86400, 604800}

\* The start and end plot is called with: end an instant of Nows, start a
\* span and some milliseconds before it.
RollInputs ==
    {[start |-> <<now[1] - span, ms>>, end |-> now] :
        now \in Nows, span \in RollSpans, ms \in {0, 500}}

InitRoll ==
    /\ app = NoApp
    /\ buffer = NoBuffer
    /\ call \in {[fn |-> "input", arg |-> a, ret |-> <<>>] : a \in RollInputs}

\* plot computes the span of its query and, when the response arrives, the
\* roll period of the graph.
PlotRollPeriod004 ==
    /\ call.fn = "input"
    /\ UNCHANGED <<app, buffer>>
    /\ LET periodSecs == epochDiff(epochOf(call.arg.end), epochOf(call.arg.start))
       IN  call' = [fn |-> "rollPeriod", arg |-> call.arg,
                    ret |-> [periodSecs |-> periodSecs,
                             rollPeriod |-> rollPeriodOf(periodSecs)]]

NextRoll == PlotRollPeriod004

SpecRoll == InitRoll /\ [][NextRoll]_vars

-----------------------------------------------------------------------------
(* The App of src/unnamed/part_005 (lines 553-715) under Preact.  `app` is *)
(* a record: the state of the hooks (period, measurementType, dataSource,  *)
(* selectedSensors, sensors, data, windowSize), the values the last render *)
(* saw (rendered: the closure of the effects), the effects that wait to    *)
(* run (pending), the browser (hash, the chart element and its style, the  *)
(* requests in flight) and the environment (now, registry).  data is Null  *)
(* or Some(response object); the field id of a response object stands for  *)
(* the identity of the object, which the dependency lists compare.         *)

ChartEffects == <<"style", "plot">>

AppEffects == <<"sensors", "hash", "reset", "fetch">>

Range(seq) == {seq[k] : k \in 1..Len(seq)}

\* height of Chart: width * 0.75, at most windowHeight - 100
chartHeight(width, windowSize) ==
    LET maxHeight == windowSize[2] - 100
        height == (width * 3) \div 4
    IN  IF height > maxHeight THEN maxHeight ELSE height

\* What a render of App and Chart reads from the state s.  The width is
\* that of the bounding rectangle of the element (boundingWidth): the width
\* of the window at the first measurement, which the render writes to the
\* style of the element, so that later measurements return it again.
renderedOf(s) ==
    [period |-> s.period, measurementType |-> s.measurementType,
     dataSource |-> s.dataSource, selectedSensors |-> s.selectedSensors,
     sensors |-> s.sensors, data |-> s.data, windowSize |-> s.windowSize,
     width |-> s.boundingWidth,
     height |-> chartHeight(s.boundingWidth, s.windowSize)]

\* The identity of data
dataId(data) == IF data = Null THEN 0 ELSE data[1].id

\* Chart, first effect (lines 568-573)
styleEffect(s) ==
    IF s.rendered.data # Null
    THEN [s EXCEPT !.style = <<s.rendered.width, s.rendered.height>>]
    ELSE s

\* An effect that empties the element before it calls plot.
plotEffectClearingFirst(s) ==
    LET c == s.rendered IN
    IF c.data = Null THEN s
    ELSE LET object == c.data[1]
             r == plot(<<>>, object.measurementType, fieldOf(object, "summaries"),
                       object, c.sensors, c.width, c.height)
         IN  [s EXCEPT !.element = r.element,
                       !.rendered.data = Some(r.data),
                       !.data = IF dataId(s.data) = object.id THEN Some(r.data) ELSE @]

\* Chart, second effect (lines 575-590): plot writes to the data object,
\* which the state holds too unless a newer response replaced it.
plotEffect(s) ==
    LET c == s.rendered IN
    IF c.data = Null THEN s
    ELSE LET object == c.data[1]
             r == plot(s.element, object.measurementType, fieldOf(object, "summaries"),
                       object, c.sensors, c.width, c.height)
         IN  [s EXCEPT !.element = r.element,
                       !.rendered.data = Some(r.data),
                       !.data = IF dataId(s.data) = object.id THEN Some(r.data) ELSE @]

\* useSensors (lines 606-614)
sensorsEffect(s) == [s EXCEPT !.sensorsInflight = TRUE]

\* updateHash (lines 347-356) of the effect of lines 677-681
hashEffect(s) ==
    LET c == s.rendered
        hash == serializeHash([k \in Range(HashKeys) |->
                    CASE k = "period" -> StringValue(c.period)
                      [] k = "measurementType" -> StringValue(c.measurementType)
                      [] k = "dataSource" -> StringValue(c.dataSource)
                      [] OTHER -> c.selectedSensors])
    IN  IF c.period # "" /\ hash # s.hash THEN [s EXCEPT !.hash = hash] ELSE s

\* A variant of resetEffect that resets the types the dropdown offers only.
resetEffectOfferedTypes(s) ==
    LET c == s.rendered IN
    IF c.dataSource = "summaries"
       /\ c.measurementType \in {"pressure", "battery_voltage", "tx_power"}
    THEN [s EXCEPT !.measurementType = "temperature"]
    ELSE s

\* The effect of lines 684-688
resetEffect(s) ==
    LET c == s.rendered IN
    IF c.dataSource = "summaries" /\ c.measurementType # "temperature"
       /\ c.measurementType # "humidity"
    THEN [s EXCEPT !.measurementType = "temperature"]
    ELSE s

\* The request of useMeasurementsOrSummaries (lines 625-636); period tells
\* which period the request was made for and is not sent.
requestOf(period, measurementType, dataSource, now) ==
    LET end == now
        start == dateMinus(end, periodToMillis(period))
    IN  [endpoint |-> IF dataSource = "summaries" THEN "summaries.json"
                      ELSE "measurements.json",
         start |-> epochOf(start), end |-> epochOf(end),
         measurementType |-> measurementType, period |-> period]

\* The effect of useMeasurementsOrSummaries: periodToMillis throws for an
\* unknown unit and the effect ends without a request.
fetchEffect(s) ==
    LET c == s.rendered IN
    IF periodUnit(c.period) = "" THEN s
    ELSE [s EXCEPT !.inflight =
              @ \cup {requestOf(c.period, c.measurementType, c.dataSource, s.now)}]

runEffect(s, effect) ==
    CASE effect = "style" -> styleEffect(s)
      [] effect = "plot" -> plotEffect(s)
      [] effect = "sensors" -> sensorsEffect(s)
      [] effect = "hash" -> hashEffect(s)
      [] effect = "reset" -> resetEffect(s)
      [] effect = "fetch" -> fetchEffect(s)

RECURSIVE runEffects(_, _)
\* The effects of the list that are pending run in the order of the list.
runEffects(s, effects) ==
    IF effects = <<>> THEN s
    ELSE IF Head(effects) \in s.pending
    THEN runEffects([runEffect(s, Head(effects)) EXCEPT !.pending = @ \ {Head(effects)}],
                    Tail(effects))
    ELSE runEffects(s, Tail(effects))

\* The effects whose dependency list differs between two renders.
changedEffects(old, new) ==
    {e \in Range(ChartEffects) \cup Range(AppEffects) :
        CASE e = "style" -> <<old.width, old.height>> # <<new.width, new.height>>
          [] e = "plot" -> <<dataId(old.data), old.width, old.height>>
                           # <<dataId(new.data), new.width, new.height>>
          [] e = "sensors" -> FALSE
          [] e = "hash" -> <<old.period, old.measurementType, old.dataSource,
                             old.selectedSensors>>
                           # <<new.period, new.measurementType, new.dataSource,
                               new.selectedSensors>>
          [] e = "reset" -> old.dataSource # new.dataSource
          [] e = "fetch" -> <<old.period, old.measurementType, old.dataSource>>
                            # <<new.period, new.measurementType, new.dataSource>>}

\* A state of App changed since its last render
appDirty(s) ==
    <<s.period, s.measurementType, s.dataSource, s.selectedSensors, s.sensors,
      dataId(s.data)>>
    # <<s.rendered.period, s.rendered.measurementType, s.rendered.dataSource,
        s.rendered.selectedSensors, s.rendered.sensors, dataId(s.rendered.data)>>

\* The state of Chart (useWindowSize) changed since its last render
chartDirty(s) == s.windowSize # s.rendered.windowSize

\* A render is due: Preact renders a component in a microtask after its
\* state was set, before the browser handles another event.
renderDue(s) == appDirty(s) \/ chartDirty(s)

\* One render.  A component that renders first runs the effects it still
\* has pending, with the values of its previous render; a state they set
\* shows in the render after this one.  App renders Chart; a change of the
\* window size renders Chart alone.
renderOnce(s) ==
    LET ran == runEffects(s, IF appDirty(s) THEN AppEffects \o ChartEffects
                             ELSE ChartEffects)
        new == IF appDirty(s) THEN [renderedOf(s) EXCEPT !.data = ran.data]
               ELSE [ran.rendered EXCEPT !.windowSize = s.windowSize,
                                         !.height = chartHeight(s.rendered.width,
                                                                s.windowSize)]
    IN  [ran EXCEPT !.rendered = new,
                    !.pending = @ \cup changedEffects(s.rendered, new)]

-----------------------------------------------------------------------------
(* The specification of the App: the page is loaded with a hash, and then  *)
(* the user clicks, selects and resizes, responses arrive, Preact renders  *)
(* and the effects run.  A handler sets a state; the render it causes is   *)
(* the step that follows it.                                               *)

\* The most clicks, selections and resizes of a behaviour.
MaxEvents == 1

\* window.location.hash when the page is loaded
Hashes ==
    {"",
     "#dataSource=summaries&measurementType=pressure&period=24h",
     "#dataSource=measurements&measurementType=pressure&period=0h",
     "#dataSource=measurements&measurementType=pressure&period=24h",
     "#dataSource=measurements&measurementType=wind&period=2d",
     "#measurementType=humidity&period=-1h&selectedSensors=bb",
     "#period=qh",
     "#period=7&selectedSensors=null"}

\* [window.innerWidth, window.innerHeight]
WindowSizes == {<<800, 900>>, <<1000, 500>>}

\* The size of the window when the page is loaded
LoadSizes == {<<800, 900>>}

\* new Date() when the effects run
AppNows == {<<1794000000, 250>>}

\* The buttons of Nav (lines 470-511)
QuickChooserPeriods ==
    {"1h", "6h", "12h", "24h", "2d", "7d", "30d", "90d", "180d", "365d"}

\* The buttons that are clicked
ClickedPeriods == {"1h", "30d"}

\* The state after App and Chart are mounted: the useState initializers
\* of lines 649-669 have read the hash, the layout effect of useWindowSize
\* has rendered Chart a second time with the size of its element, and no
\* other effect has run.
mounted(hash, windowSize, now, registry) ==
    LET parsedHash == parseHash(hash)
        state == [hash |-> hash,
                  selectedSensors |->
                      IF "selectedSensors" \in DOMAIN parsedHash
                      THEN parsedHash.selectedSensors ELSE NullValue,
                  period |->
                      IF hashField(parsedHash, "period") # Undefined
                      THEN parsedHash.period.v ELSE "24h",
                  measurementType |->
                      IF hashField(parsedHash, "measurementType") # Undefined
                      THEN parsedHash.measurementType.v ELSE "temperature",
                  dataSource |->
                      IF hashField(parsedHash, "dataSource") # Undefined
                      THEN parsedHash.dataSource.v ELSE "summaries",
                  sensors |-> EmptyObject, data |-> Null,
                  windowSize |-> windowSize, boundingWidth |-> windowSize[1],
                  element |-> <<>>, style |-> Null,
                  inflight |-> {}, sensorsInflight |-> FALSE,
                  now |-> now, registry |-> registry, events |-> 0]
    IN  [k \in (DOMAIN state) \cup {"rendered", "pending"} |->
            CASE k = "rendered" -> renderedOf(state)
              [] k = "pending" -> Range(ChartEffects) \cup Range(AppEffects)
              [] OTHER -> state[k]]

Init ==
    /\ call = NoCall
    /\ buffer = NoBuffer
    /\ app \in {mounted(hash, windowSize, now, registry) :
                   hash \in Hashes, windowSize \in LoadSizes,
                   now \in AppNows, registry \in AppRegistries}

\* Preact renders the components whose state was set.
Render ==
    /\ renderDue(app)
    /\ app' = renderOnce(app)
    /\ UNCHANGED <<call, buffer>>

\* The effects run after the paint.
FlushEffects ==
    /\ ~renderDue(app)
    /\ app.pending # {}
    /\ app' = runEffects(app, ChartEffects \o AppEffects)
    /\ UNCHANGED <<call, buffer>>

\* A click on a QuickChooser button (lines 384-389, 703-705)
ClickQuickChooser ==
    /\ ~renderDue(app)
    /\ app.events < MaxEvents
    /\ \E period \in ClickedPeriods :
          app' = [app EXCEPT !.period = period, !.events = @ + 1]
    /\ UNCHANGED <<call, buffer>>

\* The options MeasurementTypeDropdown shows (lines 395-408)
optionsOf(dataSource) ==
    IF dataSource = "summaries" THEN {"temperature", "humidity"}
    ELSE {"temperature", "humidity", "pressure", "battery_voltage", "tx_power"}

\* A change of MeasurementTypeDropdown (lines 410-413)
SelectMeasurementType ==
    /\ ~renderDue(app)
    /\ app.events < MaxEvents
    /\ \E value \in optionsOf(app.rendered.dataSource) :
          app' = [app EXCEPT !.measurementType = value, !.events = @ + 1]
    /\ UNCHANGED <<call, buffer>>

\* A change of DataSourceDropdown (lines 419-428)
SelectDataSource ==
    /\ ~renderDue(app)
    /\ app.events < MaxEvents
    /\ \E value \in {"measurements", "summaries"} :
          app' = [app EXCEPT !.dataSource = value, !.events = @ + 1]
    /\ UNCHANGED <<call, buffer>>

\* The resize listener of useWindowSize (lines 372-381)
Resize ==
    /\ ~renderDue(app)
    /\ app.events < MaxEvents
    /\ \E windowSize \in WindowSizes \ {app.windowSize} :
          app' = [app EXCEPT !.windowSize = windowSize, !.events = @ + 1]
    /\ UNCHANGED <<call, buffer>>

\* sensors.json is answered (lines 609-613).
SensorsResponse ==
    /\ ~renderDue(app)
    /\ app.sensorsInflight
    /\ app' = [app EXCEPT !.sensorsInflight = FALSE, !.sensors = app.registry]
    /\ UNCHANGED <<call, buffer>>

\* An identity for the next response object, other than that of the object
\* the state holds.
nextId(s) == IF dataId(s.data) = 1 THEN 2 ELSE 1

\* A callback that reads the measurementType of the present selection
answerOfSelection(payload, request, id) ==
    withField(withField(withField(payload, "measurementType", app.measurementType),
                        "id", id),
              "endpoint", request.endpoint)

\* The object setData receives: the payload with the measurementType the
\* effect saw.  id and endpoint are not fields of the object: they tell its
\* identity and the endpoint it was fetched from.
answerOf(payload, request, id) ==
    withField(withField(withField(payload, "measurementType", request.measurementType),
                        "id", id),
              "endpoint", request.endpoint)

\* A request is answered with JSON (lines 637-642).
Response ==
    /\ ~renderDue(app)
    /\ \E request \in app.inflight :
       \E payload \in payloads(request, app.registry) :
          app' = [app EXCEPT
                     !.inflight = @ \ {request},
                     !.data = Some(answerOf(payload, request, nextId(app)))]
    /\ UNCHANGED <<call, buffer>>

\* A request fails: fetch rejects and nothing handles it.
RequestFails ==
    /\ ~renderDue(app)
    /\ \E request \in app.inflight :
          app' = [app EXCEPT !.inflight = @ \ {request}]
    /\ UNCHANGED <<call, buffer>>

Next ==
    \/ Render
    \/ FlushEffects
    \/ ClickQuickChooser
    \/ SelectMeasurementType
    \/ SelectDataSource
    \/ Resize
    \/ SensorsResponse
    \/ Response
    \/ RequestFails

Spec == Init /\ [][Next]_vars

-----------------------------------------------------------------------------
(* The specification of the URL hash: a view state is serialized and the   *)
(* App is initialised from the hash, and parseHash is applied to a hash.   *)

\* The view state of an App
viewStateOf(s) ==
    [period |-> s.period, measurementType |-> s.measurementType,
     dataSource |-> s.dataSource, selectedSensors |-> s.selectedSensors]

\* updateHash({ period, measurementType, dataSource, selectedSensors })
hashOfViewState(state) ==
    serializeHash([k \in Range(HashKeys) |->
        IF k = "selectedSensors" THEN state.selectedSensors
        ELSE StringValue(state[k])])

\* The view states: the strings a button, a dropdown or a hash value give
\* (`#period=` gives the empty string), and selectedSensors null or a list
ViewStates ==
    [period : {"24h", "7d", ""},
     measurementType : {"temperature", "pressure", ""},
     dataSource : {"summaries", "measurements", ""},
     selectedSensors : {NullValue} \cup {ListValue(l) : l \in SensorLists}]

\* window.location.hash as a user may write it
TypedHashes ==
    Hashes \cup {"#selectedSensors=aa,bb&period=1h", "#selectedSensors=",
                 "#selectedSensors", "#selected=aa", "#s=1h&period=1h",
                 "#sensors=aa,bb", "#period", "#"}

InitHash ==
    /\ app = NoApp
    /\ buffer = NoBuffer
    /\ call \in {[fn |-> "state", arg |-> state, ret |-> <<>>] : state \in ViewStates}
            \cup {[fn |-> "hash", arg |-> hash, ret |-> <<>>] : hash \in TypedHashes}

\* The hash effect writes the hash of a view state; the page is loaded with
\* this hash.
ReloadFromHash ==
    /\ call.fn = "state"
    /\ UNCHANGED <<app, buffer>>
    /\ \E windowSize \in LoadSizes, now \in AppNows, registry \in AppRegistries :
          call' = [fn |-> "reload", arg |-> call.arg,
                   ret |-> [hash |-> hashOfViewState(call.arg),
                            state |-> viewStateOf(mounted(hashOfViewState(call.arg),
                                                          windowSize, now, registry))]]

CallParseHash ==
    /\ call.fn = "hash"
    /\ UNCHANGED <<app, buffer>>
    /\ call' = [fn |-> "parseHash", arg |-> call.arg, ret |-> parseHash(call.arg)]

NextHash == ReloadFromHash \/ CallParseHash

SpecHash == InitHash /\ [][NextHash]_vars

-----------------------------------------------------------------------------
(* The SensorSelector: src/unnamed/part_005 lines 431-462.  A selection is  *)
(* the tagged selectedSensors of the App, null or a list of sensor ids.     *)

\* Array.from(new Set([...sensorIdsWithData, ...sensorIds])).sort()
allSensorIdsOf(sensorIdsWithData, sensorIds) ==
    sortedIds({sensorIdsWithData[i] : i \in 1..Len(sensorIdsWithData)} \cup sensorIds, 1)

\* selectedSensors.includes(sensorId)
listIncludes(list, sensorId) == \E i \in 1..Len(list) : list[i] = sensorId

\* list.filter((sid) => sid !== sensorId)
filterOut(list, sensorId) == SelectSeq(list, LAMBDA sid : sid # sensorId)

\* onClick without the branch for a selection of null.
onClickNullAsEmpty(selectedSensors, allSensorIds, sensorId) ==
    IF selectedSensors.t = "list" /\ listIncludes(selectedSensors.v, sensorId)
    THEN ListValue(filterOut(selectedSensors.v, sensorId))
    ELSE ListValue((IF selectedSensors.t = "null" THEN <<>> ELSE selectedSensors.v)
                   \o <<sensorId>>)

\* The value onClick of the checkbox of sensorId hands to setSelectedSensors.
onClick(selectedSensors, allSensorIds, sensorId) ==
    IF selectedSensors.t = "list" /\ listIncludes(selectedSensors.v, sensorId)
    THEN ListValue(filterOut(selectedSensors.v, sensorId))
    ELSE IF selectedSensors.t = "null"
    THEN ListValue(filterOut(allSensorIds, sensorId))
    ELSE ListValue(selectedSensors.v \o <<sensorId>>)

\* The selectedSensors the App starts with: src/unnamed/part_005 lines 652-656.
selectionOfHash(hash) ==
    LET parsedHash == parseHash(hash) IN
    IF "selectedSensors" \in DOMAIN parsedHash
    THEN parsedHash["selectedSensors"]
    ELSE NullValue

SelectorHashes ==
    {"#period=24h", "#selectedSensors=", "#selectedSensors=null",
     "#selectedSensors=bb", "#selectedSensors=cc,aa", "#selectedSensors=aa,aa",
     "#selectedSensors=zz,aa"}

\* The SensorSelector as first rendered: nothing clicked yet.
InitSelector ==
    /\ \E hash \in SelectorHashes, sensorIdsWithData \in SensorLists,
          sensorIds \in SUBSET SensorIds :
          call = [fn |-> "SensorSelector",
                  arg |-> [selectedSensors |-> selectionOfHash(hash),
                           allSensorIds |-> allSensorIdsOf(sensorIdsWithData, sensorIds),
                           sensorId |-> ""],
                  ret |-> selectionOfHash(hash)]
    /\ app = NoApp
    /\ buffer = NoBuffer

\* A click on the checkbox of a listed sensor; the component renders again
\* with the selection the click set.
Click ==
    /\ call.fn \in {"SensorSelector", "onClick"}
    /\ \E k \in 1..Len(call.arg.allSensorIds) :
          call' = [fn |-> "onClick",
                   arg |-> [selectedSensors |-> call.ret,
                            allSensorIds |-> call.arg.allSensorIds,
                            sensorId |-> call.arg.allSensorIds[k]],
                   ret |-> onClick(call.ret, call.arg.allSensorIds,
                                   call.arg.allSensorIds[k])]
    /\ UNCHANGED <<app, buffer>>

NextSelector == Click

SpecSelector == InitSelector /\ [][NextSelector]_vars

-----------------------------------------------------------------------------
(* The Recent Buffer as spec.md describes it (sections 3, 4.2 and 5): one  *)
(* sequence of readings per sensor and measurement type.  Every operation  *)
(* holds the lock of the buffer for its whole duration, so the operations  *)
(* are the steps.  A reading is [timestamp, value]; time is counted in     *)
(* units of which Retention make the retention of the buffer.              *)

\* The retention, in time units
Retention == 1

\* The last instant of the clock
MaxTime == 2

\* The most readings the buffer is given
MaxReadings == 2

BufferSensors == {"aa", "bb"}

\* README.md: the buffer holds temperature and humidity
BufferTypes == {"temperature"}

BufferKeys == BufferSensors \X BufferTypes

ReadingValues == {10, 11}

\* The sequence with the reading inserted behind the readings that are not
\* newer than it: at the end unless it arrives out of order.
insertSorted(sequence, reading) ==
    LET older == SelectSeq(sequence, LAMBDA r : r.timestamp <= reading.timestamp)
        newer == SelectSeq(sequence, LAMBDA r : r.timestamp > reading.timestamp)
    IN  older \o <<reading>> \o newer

\* The subrange of a query that trusts evict to have removed what the
\* retention horizon has passed
subrangeOfStored(sequence, start, end, now) ==
    SelectSeq(sequence, LAMBDA r : r.timestamp >= start /\ r.timestamp < end)

\* The readings of a sequence in [start, end) that the retention horizon
\* has not passed
subrange(sequence, start, end, now) ==
    SelectSeq(sequence, LAMBDA r : /\ r.timestamp >= start
                                   /\ r.timestamp < end
                                   /\ r.timestamp >= now - Retention)

InitBuffer ==
    /\ call = NoCall
    /\ app = NoApp
    /\ buffer = [sequences |-> [key \in BufferKeys |-> <<>>], now |-> 0,
                 appends |-> 0, result |-> Null]

\* append(reading), AppendReading here as Sequences defines Append: the
\* reading carries the time of its measurement, which is not later than now.
AppendReading ==
    /\ buffer.appends < MaxReadings
    /\ \E key \in BufferKeys, timestamp \in 0..buffer.now, value \in ReadingValues :
          buffer' = [buffer EXCEPT
                        !.sequences[key] =
                            insertSorted(@, [timestamp |-> timestamp, value |-> value]),
                        !.appends = @ + 1]
    /\ UNCHANGED <<call, app>>

\* query(sensor_filter, measurement_type, start, end)
Query ==
    /\ \E filter \in (SUBSET BufferSensors) \ {{}}, type \in BufferTypes,
          start \in 0..MaxTime, end \in 1..(MaxTime + 1) :
          /\ start < end
          /\ buffer' = [buffer EXCEPT !.result =
                 Some([filter |-> filter, type |-> type, start |-> start, end |-> end,
                       now |-> buffer.now,
                       readings |-> [sensor \in filter |->
                           subrange(buffer.sequences[<<sensor, type>>], start, end,
                                    buffer.now)]])]
    /\ UNCHANGED <<call, app>>

\* evict()
Evict ==
    /\ buffer' = [buffer EXCEPT !.sequences =
           [key \in BufferKeys |->
               SelectSeq(buffer.sequences[key],
                         LAMBDA r : ~(r.timestamp < buffer.now - Retention))]]
    /\ buffer' # buffer
    /\ UNCHANGED <<call, app>>

\* Time passes.
Tick ==
    /\ buffer.now < MaxTime
    /\ buffer' = [buffer EXCEPT !.now = @ + 1]
    /\ UNCHANGED <<call, app>>

NextBuffer == AppendReading \/ Query \/ Evict \/ Tick

SpecBuffer == InitBuffer /\ [][NextBuffer]_vars

-----------------------------------------------------------------------------
(* The routing of the Query Service as spec.md describes it (sections 4.1, *)
(* 4.4, 5 and 7).  The service is a stateless transformation of what it    *)
(* reads, so a query is one application of queryService to the request,    *)
(* the clock, the contents of the store and of the Recent Buffer and the   *)
(* outcome of the Store Adapter call.  A reading is here [sensor,          *)
(* timestamp, value]; its type is the type of the query.                   *)

\* The most rows of the queried type in the store
MaxStored == 2

\* The value of every reading of the store; the buffer holds 11.
StoredValue == 10

BufferedValue == 11

identity(reading) == <<reading.timestamp, reading.sensor>>

\* A Query Service that asks the store whatever the range is
routeThroughStore(start, end, now) ==
    IF end <= now - Retention THEN "store" ELSE "both"

\* Where a valid query is read from: the Recent Buffer when [start, end)
\* begins at or after the horizon now - Retention, the store when it ends
\* at or before the horizon, both when it straddles the horizon.
route(start, end, now) ==
    IF start >= now - Retention THEN "buffer"
    ELSE IF end <= now - Retention THEN "store"
    ELSE "both"

RECURSIVE readingsOf(_, _, _, _)
\* The rows of the sensors (a sequence of ids) at one timestamp
readingsOf(store, sensors, timestamp, k) ==
    IF k > Len(sensors) THEN <<>>
    ELSE LET rows == {r \in store : r.sensor = sensors[k] /\ r.timestamp = timestamp}
         IN  (IF rows = {} THEN <<>> ELSE <<CHOOSE r \in rows : TRUE>>)
             \o readingsOf(store, sensors, timestamp, k + 1)

RECURSIVE fetch(_, _, _, _)
\* fetch(sensor_filter, measurement_type, start, end) of the Store Adapter:
\* ascending by timestamp, start included, end excluded
fetch(store, sensor_filter, start, end) ==
    IF start >= end THEN <<>>
    ELSE readingsOf(store, sortedIds(sensor_filter, 1), start, 1)
         \o fetch(store, sensor_filter, start + 1, end)

RECURSIVE tagged(_, _)
\* The readings of one sequence of the buffer with their sensor
tagged(sequence, sensor) ==
    IF sequence = <<>> THEN <<>>
    ELSE <<[sensor |-> sensor, timestamp |-> Head(sequence).timestamp,
            value |-> Head(sequence).value]>> \o tagged(Tail(sequence), sensor)

RECURSIVE bufferQuery(_, _, _, _, _, _)
\* query(sensor_filter, measurement_type, start, end) of the Recent Buffer,
\* the sensors (a sequence of ids) one after the other
bufferQuery(sequences, sensors, measurement_type, start, end, now) ==
    IF sensors = <<>> THEN <<>>
    ELSE tagged(subrange(sequences[<<Head(sensors), measurement_type>>],
                         start, end, now), Head(sensors))
         \o bufferQuery(sequences, Tail(sensors), measurement_type, start, end, now)

\* The store data that the buffer data do not hold, by identity
withoutBuffered(storeData, bufferData) ==
    SelectSeq(storeData, LAMBDA r :
        \A k \in 1..Len(bufferData) : identity(bufferData[k]) # identity(r))

\* Store data first, buffer data appended; of a reading present in both the
\* reading of the buffer is kept.
merged(storeData, bufferData) == withoutBuffered(storeData, bufferData) \o bufferData

\* A straddling query whose store portion failed, answered as if complete
partialAsComplete(bufferData, calls) ==
    [status |-> "ok", error |-> "", readings |-> bufferData, calls |-> calls]

\* The answer to a straddling query whose store portion failed
partialFailure(bufferData, calls) ==
    [status |-> "partial", error |-> "StoreUnavailable", readings |-> bufferData,
     calls |-> calls]

\* The readings a request is answered from, the calls made for them and the
\* status of the answer.  outcome is what the Store Adapter call comes to if
\* it is made: "ok", "unreachable" or "timeout".
queryService(request, sensor_filter, now, store, sequences, outcome) ==
    LET kind == validationError(request)
        start == request.start[1]
        end == request.end[1]
        source == route(start, end, now)
        calls == [store |-> IF source = "buffer" THEN 0 ELSE 1,
                  buffer |-> IF source = "store" THEN 0 ELSE 1]
        storeData == fetch(store, sensor_filter, start, end)
        bufferData == bufferQuery(sequences, sortedIds(sensor_filter, 1),
                                  request.measurementType, start, end, now)
    IN  IF kind # ""
        THEN [status |-> "error", error |-> kind, readings |-> <<>>,
              calls |-> [store |-> 0, buffer |-> 0]]
        ELSE IF source = "buffer"
        THEN [status |-> "ok", error |-> "", readings |-> bufferData, calls |-> calls]
        ELSE IF outcome # "ok"
        THEN IF source = "store"
             THEN [status |-> "error", error |-> "StoreUnavailable",
                   readings |-> <<>>, calls |-> calls]
             ELSE partialFailure(bufferData, calls)
        ELSE IF source = "store"
        THEN [status |-> "ok", error |-> "", readings |-> storeData, calls |-> calls]
        ELSE [status |-> "ok", error |-> "", readings |-> merged(storeData, bufferData),
              calls |-> calls]

\* The rows the store may hold: one row per identity
StoreContents ==
    {store \in SUBSET [sensor : BufferSensors, timestamp : 0..MaxTime,
                       value : {StoredValue}] : Cardinality(store) <= MaxStored}

SortedSequences ==
    {sequence \in UNION {[1..n -> [timestamp : 0..MaxTime, value : {BufferedValue}]] :
                            n \in 0..MaxReadings} :
        \A k \in 1..(Len(sequence) - 1) :
            sequence[k].timestamp <= sequence[k + 1].timestamp}

\* The sequences the buffer may hold after at most MaxReadings appends, of
\* which evict may have removed some or none
BufferContents ==
    {sequences \in [BufferKeys -> SortedSequences] :
        Len(sequences[<<"aa", "temperature">>])
            + Len(sequences[<<"bb", "temperature">>]) <= MaxReadings}

ServiceRequests ==
    {[endpoint |-> "measurements.json", start |-> Some(start), end |-> Some(end),
      measurementType |-> "temperature"] :
        start \in 0..MaxTime, end \in 0..(MaxTime + 1)}

ServiceInputs ==
    [request : {r \in ServiceRequests : r.start[1] <= r.end[1]},
     sensor_filter : {{"aa"}, {"aa", "bb"}},
     now : {MaxTime},
     store : StoreContents,
     sequences : BufferContents,
     outcome : {"ok", "unreachable", "timeout"}]

InitService ==
    /\ app = NoApp
    /\ buffer = NoBuffer
    /\ call \in {[fn |-> "input", arg |-> a, ret |-> <<>>] : a \in ServiceInputs}

HandleQuery ==
    /\ call.fn = "input"
    /\ UNCHANGED <<app, buffer>>
    /\ call' = [fn |-> "queryService",
                arg |-> call.arg,
                ret |-> queryService(call.arg.request, call.arg.sensor_filter,
                                     call.arg.now, call.arg.store,
                                     call.arg.sequences, call.arg.outcome)]

NextService == HandleQuery

SpecService == InitService /\ [][NextService]_vars

-----------------------------------------------------------------------------
(* The Aggregation Engine and the quantization of raw queries as spec.md   *)
(* describes them (sections 3 and 4.3; README.md 55-58).  Timestamps are   *)
(* seconds since the epoch, values are tenths (10.5 is 105), and an        *)
(* average is the fraction [sum, count].                                   *)

\* The most readings of one sensor in a query
MaxSamples == 3

\* The minute to which raw queries quantize
Minute == 60

\* A quantization to the nearest multiple of width
roundTo(timestamp, width) == ((timestamp + width \div 2) \div width) * width

\* The timestamp floored to the enclosing multiple of width since the epoch
floorTo(timestamp, width) == (timestamp \div width) * width

\* The readings of a sequence with timestamp in [start, end)
within(readings, start, end) ==
    SelectSeq(readings, LAMBDA r : r.timestamp >= start /\ r.timestamp < end)

RECURSIVE sumOf(_)
sumOf(readings) ==
    IF readings = <<>> THEN 0 ELSE Head(readings).value + sumOf(Tail(readings))

\* A bucket without readings, filled with zeroes
zeroBucket(start, width) ==
    [start |-> start, end |-> start + width, count |-> 0,
     low |-> Some(0), high |-> Some(0), average |-> Some([sum |-> 0, count |-> 1])]

\* A bucket without readings: a gap
gapBucket(start, width) ==
    [start |-> start, end |-> start + width, count |-> 0,
     low |-> Null, high |-> Null, average |-> Null]

\* The bucket [start, start + width) of the readings of a sensor
bucketOf(readings, start, width) ==
    LET inside == within(readings, start, start + width)
        values == {inside[k].value : k \in 1..Len(inside)}
    IN  IF inside = <<>> THEN gapBucket(start, width)
        ELSE [start |-> start, end |-> start + width, count |-> Len(inside),
              low |-> Some(CHOOSE v \in values : \A w \in values : v <= w),
              high |-> Some(CHOOSE v \in values : \A w \in values : v >= w),
              average |-> Some([sum |-> sumOf(inside), count |-> Len(inside)])]

\* Buckets that begin at the start of the query
firstBucketAtQueryStart(query_start, width) == query_start

\* The start of the first bucket of a query: a multiple of the width
firstBucketStart(query_start, width) == floorTo(query_start, width)

RECURSIVE bucketsFrom(_, _, _, _)
\* The buckets from one start up to the end of the query
bucketsFrom(readings, start, query_end, width) ==
    IF start >= query_end THEN <<>>
    ELSE <<bucketOf(readings, start, width)>>
         \o bucketsFrom(readings, start + width, query_end, width)

\* The buckets of one sensor for a query: one width, chosen from the span
aggregate(readings, query_start, query_end) ==
    LET width == windowSecsOf(Some(query_end - query_start))
    IN  bucketsFrom(within(readings, query_start, query_end),
                    firstBucketStart(query_start, width), query_end, width)

RECURSIVE ascending(_)
\* The numbers of a set in ascending order
ascending(numbers) ==
    IF numbers = {} THEN <<>>
    ELSE LET least == CHOOSE n \in numbers : \A m \in numbers : n <= m
         IN  <<least>> \o ascending(numbers \ {least})

\* The value of a sensor at a quantized timestamp: of the readings of that
\* minute the last, a gap without one
cellOf(readings, timestamp) ==
    LET inside == SelectSeq(readings,
                            LAMBDA r : floorTo(r.timestamp, Minute) = timestamp)
    IN  IF inside = <<>> THEN Null ELSE Some(inside[Len(inside)].value)

\* The raw series of a query: the timestamps of the readings floored to the
\* minute, shared by the sensors, and one array of values per sensor
rawSeries(stored, query_start, query_end) ==
    LET read == [sensor \in DOMAIN stored |->
                     within(stored[sensor], query_start, query_end)]
        stamps == UNION {{floorTo(read[sensor][k].timestamp, Minute) :
                             k \in 1..Len(read[sensor])} : sensor \in DOMAIN stored}
        timestamps == ascending(stamps)
    IN  [timestamps |-> timestamps,
         values |-> [sensor \in DOMAIN stored |->
                        [k \in 1..Len(timestamps) |-> cellOf(read[sensor], timestamps[k])]]]

SampleTimes == {10, 70, 75, 200}

SampleValues == {0, 105}

\* The readings of one sensor, in timestamp order
SampleSequences ==
    {readings \in UNION {[1..n -> [timestamp : SampleTimes, value : SampleValues]] :
                            n \in 0..MaxSamples} :
        \A k \in 1..(Len(readings) - 1) :
            readings[k].timestamp <= readings[k + 1].timestamp}

ScenarioStarts == {0, 30, 50, 60, 1794000000}

\* Readings at t, t + 60 and t + 130 with the values 10.0, 10.5 and 11.0
scenario(t) ==
    <<[timestamp |-> t, value |-> 100], [timestamp |-> t + 60, value |-> 105],
      [timestamp |-> t + 130, value |-> 110]>>

\* The queries [start, end): below a day and, the last, above
SampleRanges == {<<0, 200>>, <<0, 250>>, <<30, 150>>, <<60, 180>>, <<0, 90000>>}

SampleShifts == {0, 30, 60}

AggregateInputs ==
    [stored : {[aa |-> readings, bb |-> other] :
                   readings \in SampleSequences,
                   other \in {<<>>, <<[timestamp |-> 75, value |-> 7]>>}},
     range : SampleRanges, shift : SampleShifts]
    \cup
    [stored : {[aa |-> scenario(t), bb |-> <<>>] : t \in ScenarioStarts},
     range : {<<t, t + 200>> : t \in ScenarioStarts}, shift : SampleShifts]

InitAggregate ==
    /\ app = NoApp
    /\ buffer = NoBuffer
    /\ call \in {[fn |-> "input", arg |-> a, ret |-> <<>>] : a \in AggregateInputs}

\* GET /summaries.json twice, the second range shifted
QuerySummaries ==
    /\ call.fn = "input"
    /\ UNCHANGED <<app, buffer>>
    /\ call' = [fn |-> "summaries",
                arg |-> call.arg,
                ret |-> [buckets |-> aggregate(call.arg.stored.aa, call.arg.range[1],
                                               call.arg.range[2]),
                         shifted |-> aggregate(call.arg.stored.aa,
                                               call.arg.range[1] + call.arg.shift,
                                               call.arg.range[2] + call.arg.shift),
                         stored |-> call.arg.stored]]

\* GET /measurements.json
QueryRaw ==
    /\ call.fn = "input"
    /\ UNCHANGED <<app, buffer>>
    /\ call' = [fn |-> "raw",
                arg |-> call.arg,
                ret |-> [series |-> rawSeries(call.arg.stored, call.arg.range[1],
                                              call.arg.range[2]),
                         stored |-> call.arg.stored]]

NextAggregate == QuerySummaries \/ QueryRaw

SpecAggregate == InitAggregate /\ [][NextAggregate]_vars

-----------------------------------------------------------------------------
(* C1 *)

\* C1: the bucket width requested is decided by the span end - start of the
\* query alone: 60 below one day, 3600 below 7 days, 10800 below 32 days and
\* 86400 otherwise; so 12 hours give 60, 3 days 3600 and 40 days 86400.
C1_WindowWidthFromSpan ==
    call.fn = "query" =>
        /\ call.ret.start # NaN /\ call.ret.end # NaN =>
              LET span == call.ret.end[1] - call.ret.start[1] IN
              call.ret.window =
                  CASE span < 86400 -> 60
                    [] span >= 86400 /\ span < 604800 -> 3600
                    [] span >= 604800 /\ span < 2764800 -> 10800
                    [] OTHER -> 86400
        /\ call.ret.start = NaN \/ call.ret.end = NaN => call.ret.window = 86400
        /\ call.arg.period = "12h" => call.ret.window = 60
        /\ call.arg.period = "3d" => call.ret.window = 3600
        /\ call.arg.period = "40d" => call.ret.window = 86400

\* A query of 31 days, just below the last threshold, has been issued.
C1_Witness ==
    /\ call.fn = "query"
    /\ call.arg.period = "31d"
    /\ call.ret.window = 10800
    /\ call.ret.end[1] - call.ret.start[1] = 31 * 86400

-----------------------------------------------------------------------------
(* C3 *)

SeriesOf(result) == result[1]

BandsOf(result) == result[2]

\* C3: in summaries mode the descriptors 1+3i, 2+3i and 3+3i are the Low,
\* the High and the main series of the i-th sensor, in the (low, high,
\* average) order of its three arrays, and band i joins series 2+3i (High)
\* and 1+3i (Low).
C3_SummariesSeriesOrder ==
    (call.fn = "series" /\ call.arg.summaries = Some(TRUE)) =>
        LET sensors == call.arg.sensors
            series == SeriesOf(call.ret.mine)
            bands == BandsOf(call.ret.mine)
        IN  /\ Len(series) = 1 + 3 * Len(sensors)
            /\ Len(bands) = Len(sensors)
            /\ \A i \in 0..(Len(sensors) - 1) :
                  LET id == At(sensors, i)
                      name == IF id \in DOMAIN call.arg.sensorConfig
                              THEN call.arg.sensorConfig[id].name ELSE id
                  IN  /\ At(series, 1 + 3 * i).label = "Low " \o name
                      /\ At(series, 2 + 3 * i).label = "High " \o name
                      /\ At(series, 3 + 3 * i).label = name
                      /\ At(series, 1 + 3 * i).width = "0.1"
                      /\ At(series, 2 + 3 * i).width = "0.1"
                      /\ At(series, 3 + 3 * i).width = "2"
                      /\ At(bands, i).series = <<2 + 3 * i, 1 + 3 * i>>

\* The series of two sensors have been built in summaries mode.
C3_Witness ==
    /\ call.fn = "series"
    /\ call.arg.summaries = Some(TRUE)
    /\ Len(call.arg.sensors) = 2
    /\ Len(SeriesOf(call.ret.mine)) = 7

-----------------------------------------------------------------------------
(* C8 *)

WithoutLabel(descriptor) ==
    [k \in (DOMAIN descriptor) \ {"label"} |-> descriptor[k]]

WithoutLabels(result) ==
    << [k \in 1..Len(SeriesOf(result)) |-> WithoutLabel(SeriesOf(result)[k])],
       BandsOf(result) >>

\* The main series of sensor i: the last of its three in summaries mode.
MainIndex(summaries, i) == IF summaries = Some(TRUE) THEN 3 + 3 * i ELSE 1 + i

\* C8: the registry decides labels only: the label of a sensor's series is
\* the registry name where the registry has the id and the id otherwise,
\* and under any two registries the series and bands built for the same
\* sensors agree in number, order, scale, colour, dash and band indices.
C8_RegistryOnlyLabels ==
    call.fn = "series" =>
        /\ \A i \in 0..(Len(call.arg.sensors) - 1) :
              LET id == At(call.arg.sensors, i) IN
              At(SeriesOf(call.ret.mine), MainIndex(call.arg.summaries, i)).label =
                  IF id \in DOMAIN call.arg.sensorConfig
                  THEN call.arg.sensorConfig[id].name ELSE id
        /\ WithoutLabels(call.ret.mine) = WithoutLabels(call.ret.other)

\* Series have been built under two registries that name a sensor differently
\* and of which only one knows the other sensor.
C8_Witness ==
    /\ call.fn = "series"
    /\ Len(call.arg.sensors) = 2
    /\ \E a, b \in DOMAIN call.arg.sensorConfig :
          /\ a # b
          /\ At(call.arg.sensors, 0) = a /\ At(call.arg.sensors, 1) = b
          /\ a \in DOMAIN call.arg.otherConfig
          /\ call.arg.otherConfig[a].name # call.arg.sensorConfig[a].name
          /\ b \notin DOMAIN call.arg.otherConfig
    /\ SeriesOf(call.ret.mine) # SeriesOf(call.ret.other)

-----------------------------------------------------------------------------
(* C2 *)

NonNull(values) == {values[i] : i \in {j \in 1..Len(values) : values[j] # Null}}

IsLeast(m, s) == m \in s /\ \A v \in s : ~JsLt(v, m)

IsGreatest(m, s) == m \in s /\ \A v \in s : ~JsGt(v, m)

\* C2: minMax(data, 1) returns the minimum and the maximum of the non-null
\* values of rows 1.., and null/null only when there is none, wherever the
\* nulls sit: a null is never compared as the value zero.
C2_MinMaxIgnoresNulls ==
    call.fn = "minMax" =>
        LET s == NonNull(Flatten(call.arg, 1)) IN
        IF s = {} THEN call.ret.min = Null /\ call.ret.max = Null
        ELSE IsLeast(call.ret.min, s) /\ IsGreatest(call.ret.max, s)

-----------------------------------------------------------------------------
(* C4 *)

\* No render is due and no effect is pending.
Settled(s) == ~renderDue(s) /\ s.pending = {}

\* The state holds a Series Result.
HoldsResult(s) == s.data # Null /\ "sensors" \in DOMAIN s.data[1]

-----------------------------------------------------------------------------
(* C5 *)

\* C5: the five measurement types temperature, humidity, pressure,
\* battery_voltage and tx_power, and no other, are recognized: for each of
\* them scaleAndHooksForMeasurementTypeAndValues returns a scale named as
\* the type and plot builds the chart on it; for any other value there is
\* no scale, and plot throws and leaves the element as it was.
C5_FiveTypesRecognized ==
    call.fn = "plot" =>
        IF call.arg.measurementType \in
               {"temperature", "humidity", "pressure", "battery_voltage", "tx_power"}
        THEN /\ call.ret.scaleAndHooks # Null
             /\ call.ret.scaleAndHooks[1].scale = call.arg.measurementType
             /\ ~call.ret.plot.threw
             /\ Len(call.ret.plot.element) = 1
             /\ call.ret.plot.element[1].scale.scale = call.arg.measurementType
        ELSE /\ call.ret.scaleAndHooks = Null
             /\ call.ret.plot.threw
             /\ call.ret.plot.element = call.arg.element

\* plot was called for the type wind on an element that holds a chart, and
\* the chart is still there.
C5_Witness ==
    /\ call.fn = "plot"
    /\ call.arg.measurementType = "wind"
    /\ call.arg.element = <<OldChart>>
    /\ call.ret.plot.threw
    /\ call.ret.plot.element = <<OldChart>>

-----------------------------------------------------------------------------
(* C6 *)

\* C6: every query the SPA issues carries integer epoch seconds start and
\* end with start < end, and end - start is the selected period in seconds
\* (n * 3600 for <n>h, n * 86400 for <n>d), whether the period was chosen
\* with a button or read from the URL hash.
C6_QueriesCarryValidRange ==
    \A request \in app.inflight :
        /\ request.start # NaN
        /\ request.end # NaN
        /\ request.start[1] < request.end[1]
        /\ periodToMillis(request.period) # NaN
        /\ request.end[1] - request.start[1] = periodToMillis(request.period)[1]

-----------------------------------------------------------------------------
(* C7 *)

-----------------------------------------------------------------------------
(* C9 *)

SummaryTypes == {"temperature", "humidity"}

\* The reset effect runs in this step for a type summaries do not offer.
ResetRuns ==
    /\ "reset" \in app.pending
    /\ "reset" \notin app'.pending
    /\ app.rendered.dataSource = "summaries"
    /\ app.rendered.measurementType \notin SummaryTypes

\* C9: when the data source is or becomes summaries while the measurement
\* type is neither temperature nor humidity, also on load from the URL
\* hash, the reset effect sets the type to temperature; and in every
\* settled state of the App, dataSource = summaries implies that the type
\* is temperature or humidity.
C9_SummariesResetType ==
    /\ [](Settled(app) =>
             (app.dataSource = "summaries" => app.measurementType \in SummaryTypes))
    /\ [][ResetRuns => app'.measurementType = "temperature"]_vars

\* The page was loaded with summaries and pressure in the hash, the request
\* for pressure is still in flight, and the App has settled on temperature.
C9_Witness ==
    /\ Settled(app)
    /\ app.dataSource = "summaries"
    /\ app.measurementType = "temperature"
    /\ app.hash = "#dataSource=summaries&measurementType=temperature&period=24h"
    /\ \E request \in app.inflight :
          request.endpoint = "summaries.json" /\ request.measurementType = "pressure"

-----------------------------------------------------------------------------
(* C10 *)

\* C10: whatever the order in which readings arrive, also out of order and
\* with queries in between, query returns the readings of each sensor and
\* type strictly sorted by ascending timestamp.
C10_QueryStrictlySorted ==
    buffer.result # Null =>
        \A sensor \in buffer.result[1].filter :
            LET readings == buffer.result[1].readings[sensor] IN
            \A i, j \in 1..Len(readings) :
                i < j => readings[i].timestamp < readings[j].timestamp

-----------------------------------------------------------------------------
(* C11 *)

\* C11: no reading that a query of the Recent Buffer returns is older than
\* now - Retention at the time of the query, whether or not evict has run:
\* a reading that the horizon has passed and that is still stored is left
\* out of a query over the full range.
C11_QueryFiltersByHorizon ==
    buffer.result # Null =>
        LET result == buffer.result[1] IN
        \A sensor \in result.filter :
            \A k \in 1..Len(result.readings[sensor]) :
                result.readings[sensor][k].timestamp >= result.now - Retention

\* Time has passed the retention of a reading that is still stored, and the
\* query over the full range that was just answered returned nothing for
\* its sensor.
C11_Witness ==
    /\ buffer.result # Null
    /\ LET result == buffer.result[1] IN
       /\ result.now = buffer.now
       /\ result.start = 0 /\ result.end = MaxTime + 1
       /\ \E sensor \in result.filter :
             /\ \E k \in 1..Len(buffer.sequences[<<sensor, result.type>>]) :
                   buffer.sequences[<<sensor, result.type>>][k].timestamp
                       < buffer.now - Retention
             /\ result.readings[sensor] = <<>>

-----------------------------------------------------------------------------
(* C12 *)

\* What the Store Adapter holds that a query could have read.
StoreHolds(arg) ==
    fetch(arg.store, arg.sensor_filter, arg.request.start[1], arg.request.end[1]) # <<>>

\* What the Recent Buffer holds that a query could have read.
BufferHolds(arg) ==
    bufferQuery(arg.sequences, sortedIds(arg.sensor_filter, 1),
                arg.request.measurementType, arg.request.start[1],
                arg.request.end[1], arg.now) # <<>>

\* C12: a query whose [start, end) lies within [now - Retention, now] is
\* answered from the Recent Buffer alone, with no call of the Store Adapter;
\* a query that lies before the horizon is answered from the Store Adapter
\* alone.
C12_RoutedByHorizon ==
    (call.fn = "queryService" /\ call.arg.request.start[1] < call.arg.request.end[1]) =>
        LET start == call.arg.request.start[1]
            end == call.arg.request.end[1]
            horizon == call.arg.now - Retention
        IN  /\ (start >= horizon /\ end <= call.arg.now) =>
                  /\ call.ret.calls = [store |-> 0, buffer |-> 1]
                  /\ \A k \in 1..Len(call.ret.readings) :
                        call.ret.readings[k].value = BufferedValue
            /\ end <= horizon =>
                  /\ call.ret.calls = [store |-> 1, buffer |-> 0]
                  /\ \A k \in 1..Len(call.ret.readings) :
                        call.ret.readings[k].value = StoredValue

\* A query within the horizon has been answered from the buffer while the
\* store holds a row of its range, with no call of the Store Adapter.
C12_Witness ==
    /\ call.fn = "queryService"
    /\ call.arg.request.start[1] >= call.arg.now - Retention
    /\ call.arg.request.end[1] <= call.arg.now
    /\ StoreHolds(call.arg)
    /\ call.ret.status = "ok"
    /\ call.ret.readings # <<>>
    /\ call.ret.calls.store = 0

-----------------------------------------------------------------------------
(* C13 *)

\* A query that straddles the horizon and whose two reads succeeded.
Straddles(c) ==
    /\ c.fn = "queryService"
    /\ c.arg.request.start[1] < c.arg.now - Retention
    /\ c.arg.request.end[1] > c.arg.now - Retention
    /\ c.arg.outcome = "ok"

\* C13: the answer to a query that straddles the horizon is store data
\* followed by the buffer data, no identity (timestamp, sensor, type) occurs
\* twice in it, and a reading that both sources hold has the value of the
\* buffer.
C13_MergedStoreThenBuffer ==
    Straddles(call) =>
        LET readings == call.ret.readings
            storeData == fetch(call.arg.store, call.arg.sensor_filter,
                               call.arg.request.start[1], call.arg.request.end[1])
            bufferData == bufferQuery(call.arg.sequences,
                                      sortedIds(call.arg.sensor_filter, 1),
                                      call.arg.request.measurementType,
                                      call.arg.request.start[1],
                                      call.arg.request.end[1], call.arg.now)
            fromStore == Len(readings) - Len(bufferData)
        IN  /\ fromStore >= 0
            /\ SubSeq(readings, fromStore + 1, Len(readings)) = bufferData
            /\ \A k \in 1..fromStore :
                  \E j \in 1..Len(storeData) : readings[k] = storeData[j]
            /\ \A j \in 1..Len(storeData) :
                  \E k \in 1..Len(readings) :
                      identity(readings[k]) = identity(storeData[j])
            /\ \A k, j \in 1..Len(readings) :
                  identity(readings[k]) = identity(readings[j]) => k = j
            /\ \A k \in 1..Len(readings) :
                  (\E j \in 1..Len(bufferData) :
                      identity(bufferData[j]) = identity(readings[k]))
                  => readings[k].value = BufferedValue

-----------------------------------------------------------------------------
(* C17 *)

\* A query that straddles the horizon and whose Store Adapter call failed.
StorePortionFailed(c) ==
    /\ c.fn = "queryService"
    /\ c.arg.request.start[1] < c.arg.now - Retention
    /\ c.arg.request.end[1] > c.arg.now - Retention
    /\ c.arg.outcome \in {"unreachable", "timeout"}

\* C17: when the Store Adapter call of a straddling query fails and the
\* buffer query succeeds, the answer carries the buffer data and says that
\* it is partial; it is not a complete result.
C17_PartialFailureIsExplicit ==
    StorePortionFailed(call) =>
        /\ call.ret.status = "partial"
        /\ call.ret.error = "StoreUnavailable"
        /\ call.ret.readings =
               bufferQuery(call.arg.sequences, sortedIds(call.arg.sensor_filter, 1),
                           call.arg.request.measurementType,
                           call.arg.request.start[1], call.arg.request.end[1],
                           call.arg.now)

\* The store portion of a straddling query has timed out while the store
\* holds rows of the range and the buffer has returned readings.
C17_Witness ==
    /\ StorePortionFailed(call)
    /\ call.arg.outcome = "timeout"
    /\ StoreHolds(call.arg)
    /\ BufferHolds(call.arg)
    /\ call.ret.readings # <<>>
    /\ call.ret.calls = [store |-> 1, buffer |-> 1]

-----------------------------------------------------------------------------
(* C14 *)

\* The buckets of the two queries of a call.
BucketsOf(c) ==
    {c.ret.buckets[k] : k \in 1..Len(c.ret.buckets)}
        \cup {c.ret.shifted[k] : k \in 1..Len(c.ret.shifted)}

\* C14: a bucket with count > 0 has low <= average <= high, and a bucket
\* with count = 0 is a gap: its low, high and average are null, not zero.
C14_BucketOrderAndGaps ==
    call.fn = "summaries" =>
        \A b \in BucketsOf(call) :
            /\ b.count > 0 =>
                  /\ b.low # Null /\ b.high # Null /\ b.average # Null
                  /\ b.average[1].count = b.count
                  /\ b.low[1] * b.count <= b.average[1].sum
                  /\ b.average[1].sum <= b.high[1] * b.count
            /\ b.count = 0 => b.low = Null /\ b.high = Null /\ b.average = Null

\* A query has produced a bucket of two readings whose average lies
\* strictly between its low and its high, and a bucket that is a gap.
C14_Witness ==
    /\ call.fn = "summaries"
    /\ \E b \in BucketsOf(call) :
          /\ b.count = 2
          /\ b.low[1] * 2 < b.average[1].sum
          /\ b.average[1].sum < b.high[1] * 2
    /\ \E b \in BucketsOf(call) : b.count = 0 /\ b.average = Null

-----------------------------------------------------------------------------
(* C15 *)

\* The number of readings of a sequence with timestamp in [start, end).
CountIn(readings, start, end) == Len(within(readings, start, end))

\* What C15 says of the buckets of one query [query_start, query_end).
AlignedBuckets(buckets, readings, query_start, query_end) ==
    LET width == windowSecsOf(Some(query_end - query_start))
        read == within(readings, query_start, query_end)
    IN  /\ \A k \in 1..Len(buckets) :
              /\ buckets[k].start % width = 0
              /\ buckets[k].end = buckets[k].start + width
              /\ buckets[k].count = CountIn(read, buckets[k].start, buckets[k].end)
              /\ k < Len(buckets) => buckets[k + 1].start = buckets[k].end
        /\ \A j \in 1..Len(read) :
              Cardinality({k \in 1..Len(buckets) :
                              /\ buckets[k].start <= read[j].timestamp
                              /\ read[j].timestamp < buckets[k].end
                              /\ buckets[k].count > 0}) = 1

\* C15: the start of every bucket is a multiple of the width of the query,
\* counted from the epoch and not from the start of the query; a reading
\* counts in the one bucket that contains its timestamp; and buckets of two
\* queries of one width with shifted ranges that overlap have the same
\* boundaries.
C15_BucketsAlignedToEpoch ==
    call.fn = "summaries" =>
        LET start == call.arg.range[1]
            end == call.arg.range[2]
        IN  /\ AlignedBuckets(call.ret.buckets, call.arg.stored.aa, start, end)
            /\ AlignedBuckets(call.ret.shifted, call.arg.stored.aa,
                              start + call.arg.shift, end + call.arg.shift)
            /\ \A k \in 1..Len(call.ret.buckets), j \in 1..Len(call.ret.shifted) :
                  LET b == call.ret.buckets[k]
                      c == call.ret.shifted[j]
                  IN  (b.start < c.end /\ c.start < b.end) =>
                          b.start = c.start /\ b.end = c.end

\* Two queries of 120 seconds, the first from 30 and the second from 60,
\* share the bucket [60, 120), which holds a reading.
C15_Witness ==
    /\ call.fn = "summaries"
    /\ call.arg.range = <<30, 150>> /\ call.arg.shift = 30
    /\ call.ret.buckets[1].start = 0
    /\ \E k \in 1..Len(call.ret.buckets), j \in 1..Len(call.ret.shifted) :
          /\ call.ret.buckets[k] = call.ret.shifted[j]
          /\ call.ret.buckets[k].start = 60
          /\ call.ret.buckets[k].count > 0

-----------------------------------------------------------------------------
(* C16 *)

\* The readings of the scenario are stored and queried raw over [t, t + 200).
IsScenario(c, t) ==
    /\ c.fn = "raw"
    /\ c.arg.stored = [aa |-> scenario(t), bb |-> <<>>]
    /\ c.arg.range = <<t, t + 200>>

NoGap(values) == \A k \in 1..Len(values) : values[k] # Null

\* Every timestamp of a raw series is the floor to the minute of a reading
\* of the range, every reading of the range has its floor in the series,
\* and the stored readings are as they were.
FlooredToMinute(c) ==
    LET series == c.ret.series
        start == c.arg.range[1]
        end == c.arg.range[2]
        read == [sensor \in DOMAIN c.arg.stored |->
                     within(c.arg.stored[sensor], start, end)]
    IN  /\ c.ret.stored = c.arg.stored
        /\ \A k \in 1..Len(series.timestamps) :
              /\ series.timestamps[k] % Minute = 0
              /\ \E sensor \in DOMAIN read : \E j \in 1..Len(read[sensor]) :
                    /\ series.timestamps[k] <= read[sensor][j].timestamp
                    /\ read[sensor][j].timestamp < series.timestamps[k] + Minute
        /\ \A sensor \in DOMAIN read : \A j \in 1..Len(read[sensor]) :
              \E k \in 1..Len(series.timestamps) :
                  /\ series.timestamps[k] <= read[sensor][j].timestamp
                  /\ read[sensor][j].timestamp < series.timestamps[k] + Minute
                  /\ series.values[sensor][k] # Null

\* C16 as claimed: a raw query floors every timestamp to the minute and
\* leaves the stored readings alone, and for every t the readings at t,
\* t + 60 and t + 130 with the values 10.0, 10.5 and 11.0, queried over
\* [t, t + 200), give the timestamps t, t + 60 and t + 120 with these values
\* and no gap.
C16_ScenarioForEveryStart ==
    call.fn = "raw" =>
        /\ FlooredToMinute(call)
        /\ \A t \in ScenarioStarts :
              IsScenario(call, t) =>
                  /\ call.ret.series.timestamps = <<t, t + 60, t + 120>>
                  /\ call.ret.series.values.aa = <<Some(100), Some(105), Some(110)>>
                  /\ NoGap(call.ret.series.values.aa)

\* C16, amended: a raw query floors every timestamp to the minute and
\* leaves the stored readings alone; the readings at t, t + 60 and t + 130
\* give the floors of t, t + 60 and t + 130 with the values 10.0, 10.5 and
\* 11.0 and no gap, which are t, t + 60 and t + 120 when t is a multiple of
\* 60.
C16_ScenarioForMinuteStarts ==
    call.fn = "raw" =>
        /\ FlooredToMinute(call)
        /\ \A t \in ScenarioStarts :
              IsScenario(call, t) =>
                  /\ call.ret.series.timestamps =
                         <<t - (t % 60), t + 60 - (t % 60), t + 130 - ((t + 130) % 60)>>
                  /\ t % 60 = 0 =>
                         call.ret.series.timestamps = <<t, t + 60, t + 120>>
                  /\ call.ret.series.values.aa = <<Some(100), Some(105), Some(110)>>
                  /\ NoGap(call.ret.series.values.aa)

\* The scenario has been queried for a t that is a multiple of 60, and the
\* third timestamp returned is t + 120 while the stored one is t + 130.
C16_Witness ==
    /\ IsScenario(call, 1794000000)
    /\ call.ret.series.timestamps = <<1794000000, 1794000060, 1794000120>>
    /\ call.ret.stored.aa[3].timestamp = 1794000130

-----------------------------------------------------------------------------
(* C18 *)

\* C18: whatever renders and plot calls a fetched pressure result has been
\* through, every value the chart shows is the received value divided by
\* 100 once.
C18_PressureConvertedOnce ==
    \A k \in 1..Len(app.element) :
        app.element[k].scale.scale = "pressure" =>
            \A row \in 2..Len(app.element[k].data) :
                \A j \in 1..Len(app.element[k].data[row]) :
                    LET cell == app.element[k].data[row][j] IN
                    cell # Null =>
                        /\ Exp100(cell) = 1
                        /\ Numer(cell) \in {readingOf("pressure") - 1,
                                            readingOf("pressure"),
                                            readingOf("pressure") + 1}

-----------------------------------------------------------------------------
(* C19 *)

\* The data the App holds answer the query of its present selection.
AnswersSelection(s) ==
    /\ s.data # Null
    /\ s.data[1].measurementType = s.measurementType
    /\ s.data[1].endpoint = (IF s.dataSource = "summaries" THEN "summaries.json"
                             ELSE "measurements.json")

\* The last outstanding fetch completes and its response replaces the data.
LastResponseArrives ==
    /\ app.inflight # {}
    /\ app'.inflight = {}
    /\ app'.data # Null
    /\ dataId(app'.data) # dataId(app.data)

\* C19: the response to a superseded selection does not replace the response
\* to the present one: when the last outstanding fetch completes while the
\* App holds the answer to its present selection, the App holds such an
\* answer afterwards too.
C19_LatestQueryWins ==
    [][(AnswersSelection(app) /\ LastResponseArrives) => AnswersSelection(app')]_vars

-----------------------------------------------------------------------------
(* C20 *)

\* C20: no request to summaries.json carries a measurementType other than
\* temperature and humidity, the request of the page load and the request
\* that follows a switch of the data source to summaries included.
C20_SummariesRequestsOfferedTypes ==
    \A request \in app.inflight :
        request.endpoint = "summaries.json" =>
            request.measurementType \in SummaryTypes

-----------------------------------------------------------------------------
(* C21 *)

\* Every non-null value of rows 1.. lies within [low, high].
AllWithin(twoDArray, low, high) ==
    \A v \in NonNull(Flatten(twoDArray, 1)) : ~JsLt(v, low) /\ ~JsGt(v, high)

\* C21: scaleForTemperature keeps the range [2, 24] with auto = false when
\* every non-null value lies within it, and returns auto = true without a
\* range when a non-null value lies below 2 or above 24, wherever the nulls
\* of the series are.
C21_TemperatureRangeOrAuto ==
    call.fn = "scaleForTemperature" =>
        IF AllWithin(call.arg, Some(2), Some(24))
        THEN call.ret.auto = FALSE /\ call.ret.range = <<Some(2), Some(24)>>
        ELSE call.ret.auto = TRUE /\ call.ret.range = Null

-----------------------------------------------------------------------------
(* C22 *)

\* The values of rows 1.. of a data array are readings of the type.
ValuesOfType(twoDArray, measurementType) ==
    \A v \in NonNull(Flatten(twoDArray, 1)) :
        Numer(v) \in {readingOf(measurementType) - 1, readingOf(measurementType),
                      readingOf(measurementType) + 1}

\* C22: the measurementType of a data object is the type of the request
\* that produced the data, so its values are readings of that type, and the
\* scale of every chart drawn is the scale of the type of the values the
\* chart shows, whatever the order of the responses and the selection by
\* then.
C22_ScaleMatchesValues ==
    /\ (app.data # Null /\ "data" \in DOMAIN app.data[1]) =>
           ValuesOfType(app.data[1].data, app.data[1].measurementType)
    /\ \A k \in 1..Len(app.element) :
           ValuesOfType(app.element[k].data, app.element[k].scale.scale)

\* A chart of pressure values with the pressure scale is shown while the
\* selection is temperature: the response to the superseded request of the
\* load was drawn.
C22_Witness ==
    /\ Settled(app)
    /\ app.measurementType = "temperature"
    /\ Len(app.element) = 1
    /\ app.element[1].scale.scale = "pressure"
    /\ \E v \in NonNull(Flatten(app.element[1].data, 1)) : Numer(v) = readingOf("pressure")

-----------------------------------------------------------------------------
(* C23 *)

\* C23: scaleForPressure leaves the array with the rows and the row lengths
\* it had, row 0 and every null as they were, and each non-null cell of rows
\* 1.. divided by 100.
C23_PressureFrame ==
    call.fn = "scaleForPressure" =>
        LET before == call.arg
            after == call.ret.values
        IN  /\ Len(after) = Len(before)
            /\ after[1] = before[1]
            /\ \A i \in 2..Len(before) :
                  /\ Len(after[i]) = Len(before[i])
                  /\ \A j \in 1..Len(before[i]) :
                        IF before[i][j] = Null THEN after[i][j] = Null
                        ELSE /\ Numer(after[i][j]) = Numer(before[i][j])
                             /\ Exp100(after[i][j]) = Exp100(before[i][j]) + 1

\* scaleForPressure has been applied to an array with two sensor rows, one
\* holding a null beside a value.
C23_Witness ==
    /\ call.fn = "scaleForPressure"
    /\ Len(call.arg) = 3
    /\ Len(call.arg[1]) = 2
    /\ call.arg[2][1] = Null /\ call.arg[2][2] = Some(30)
    /\ call.ret.values[2] = <<Null, <<30, 1>> >>
    /\ call.ret.values[1] = <<Some(0), Some(60)>>

-----------------------------------------------------------------------------
(* C24 *)

-----------------------------------------------------------------------------
(* C25 *)

\* C25: an App initialised from the hash that serializeHash produces for a
\* view state holds that view state, whether selectedSensors is null, an
\* empty list or a list of sensor ids.
C25_HashRoundTrip ==
    call.fn = "reload" => call.ret.state = call.arg


\* C28: parseHash returns a list value only for the key selectedSensors;
\* every other key of its result (period, measurementType, dataSource, an
\* unknown key, the empty key of an empty hash) holds its raw string value.
C28_ListOnlyForSelectedSensors ==
    call.fn = "parseHash" =>
        \A key \in DOMAIN call.ret :
            key # "selectedSensors" => call.ret[key].t \in {"string", "undefined"}



-----------------------------------------------------------------------------
(* C26 *)

\* The state holds the payload of a failed query: neither sensors nor data.
HoldsError(data) ==
    data # Null /\ "sensors" \notin DOMAIN data[1] /\ "data" \notin DOMAIN data[1]

\* C26: a failed query never replaces the displayed chart.  While the data
\* Chart was rendered with is an error payload no step changes the chart
\* element, the step in which an error payload arrives leaves the element
\* as it is, and so does the step in which a fetch fails, which changes
\* the data neither: no chart is drawn from a failed query.
C26_FailedQueryKeepsChart ==
    [][ /\ HoldsError(app.rendered.data) => app'.element = app.element
        /\ (HoldsError(app'.data) /\ app'.data # app.data)
               => app'.element = app.element
        /\ (app'.inflight # app.inflight /\ app'.inflight \subseteq app.inflight
              /\ dataId(app'.data) = dataId(app.data))
               => app'.element = app.element /\ app'.data = app.data
      ]_vars

\* The query of a click failed with an error payload, which the state
\* holds, and every effect has run: the element holds the one chart of the
\* Series Result that arrived before.
C26_Witness ==
    /\ Settled(app)
    /\ HoldsError(app.data)
    /\ app.events = 1
    /\ app.inflight = {}
    /\ Len(app.element) = 1
    /\ app.element[1].data # Null

\* The sensors a selection shows as selected: all listed ones for null.
Effective(selectedSensors, allSensorIds) ==
    IF selectedSensors.t = "null"
    THEN {allSensorIds[i] : i \in 1..Len(allSensorIds)}
    ELSE {selectedSensors.v[i] : i \in 1..Len(selectedSensors.v)}

NoDuplicates(list) == \A i, j \in 1..Len(list) : i # j => list[i] # list[j]

\* A click on s changes the effective selection in s and in nothing else.
TogglesExactly ==
    LET before == Effective(call.arg.selectedSensors, call.arg.allSensorIds)
        after == Effective(call.ret, call.arg.allSensorIds)
        s == call.arg.sensorId
    IN  /\ (s \in after) <=> (s \notin before)
        /\ after \ {s} = before \ {s}

\* C27 as stated: a click on sensor s toggles exactly s in the effective
\* selection, and after any sequence of clicks the selection list holds no
\* sensor twice.
C27_ClickTogglesNoDuplicates ==
    call.fn = "onClick" => TogglesExactly /\ NoDuplicates(call.ret.v)

\* C27, amended: a click on sensor s toggles exactly s in the effective
\* selection, and a click never adds a duplicate: after a click on a
\* selection of null or on a list without duplicates the list has none.
C27_ClickTogglesAddsNoDuplicate ==
    call.fn = "onClick" =>
        /\ TogglesExactly
        /\ (call.arg.selectedSensors.t = "null" \/ NoDuplicates(call.arg.selectedSensors.v))
               => NoDuplicates(call.ret.v)

\* A click switches a sensor on that the list of two sensors did not hold:
\* the list gains it and holds three distinct sensors.
C27_Witness ==
    /\ call.fn = "onClick"
    /\ call.arg.selectedSensors.t = "list"
    /\ ~listIncludes(call.arg.selectedSensors.v, call.arg.sensorId)
    /\ Len(call.ret.v) = 3
    /\ NoDuplicates(call.ret.v)


-----------------------------------------------------------------------------
(* C29 *)

\* C29: scaleForTemperature with two independent ifs returns a scale for
\* every data set and never fails: auto-range when the minimum is below the
\* lower bound of the default range or the maximum above its upper bound,
\* the fixed default range otherwise.
C29_TwoIfsAlwaysReturnScale ==
    call.fn = "scaleForTemperature001" =>
        LET m == minMax(call.arg, 1)
            outside == /\ m.min # Null /\ m.max # Null
                       /\ (JsLt(m.min, Some(8)) \/ JsGt(m.max, Some(24)))
        IN  /\ "threw" \notin DOMAIN call.ret
            /\ call.ret.auto = outside
            /\ call.ret.range = IF outside THEN Null ELSE <<Some(8), Some(24)>>


-----------------------------------------------------------------------------
(* C30 *)

\* C30: the roll period grows with the query span: 1 for a span of at most
\* one hour, 5 for a span over one hour, 15 for a span over six hours and 30
\* for a span over twelve hours.
C30_RollPeriodGrowsWithSpan ==
    call.fn = "rollPeriod" =>
        LET span == call.ret.periodSecs[1] IN
        call.ret.rollPeriod =
            IF span > 12 * 60 * 60 THEN 30
            ELSE IF span > 6 * 60 * 60 THEN 15
            ELSE IF span > 60 * 60 THEN 5
            ELSE 1

====
